---- MODULE Spec2Model ----
(***************************************************************************)
(* Travelport flight search for Odoo sales orders.                         *)
(*                                                                         *)
(* The module models                                                       *)
(*   - the request builder of the search wizard                            *)
(*     (wizard/flight_search_wizard.py, the _check and _prepare methods),  *)
(*   - the response interpreter (_process_flight_results),                 *)
(*   - the search and add-offer actions of the wizard as a state machine   *)
(*     (action_search_flights, action_add_selected_offers),                *)
(*   - the mock API server (mock_server/travelport_mock_server.py).        *)
(*                                                                         *)
(* Python str values that the code inspects character by character         *)
(* (upper(), len(), split(','), strip(), int()) are sequences of           *)
(* one-character strings; all other strings are TLA+ strings.  A Python     *)
(* dict is a TLA+ record and d.get(k, default) is Get(d, k, default), so    *)
(* an absent key is a record without that field.                           *)
(***************************************************************************)
EXTENDS Integers, Sequences, FiniteSets, TLC

VARIABLES
    wizard,         \* fields of the travelport.flight.search.wizard record
    flight_offers,  \* travelport.flight.offer records of the wizard, in id order
    order_lines,    \* sale.order.line records created on the wizard's order
    calls,          \* invocations of action_search_flights
    clock,          \* number of searches started so far
    last_done,      \* the search invocation that completed most recently
    document,       \* the response document under interpretation
    request,        \* the request document received by the mock server
    pc,             \* position of the operation under study
    out             \* what the operation under study produced

vars == <<wizard, flight_offers, order_lines, calls, clock, last_done, document,
          request, pc, out>>

(***************************************************************************)
(* Bounds of the model.                                                    *)
(***************************************************************************)
MaxDay      == 3    \* dates are days 1..MaxDay of one month
MaxAdults   == 2    \* passenger_adult_count ranges over 0..MaxAdults
MaxChildren == 2    \* passenger_child_count ranges over 0..MaxChildren
MaxAgeLen   == 4    \* length of the passenger_child_ages string
MaxOfferings == 2   \* offerings of a short response, every combination of shapes
MaxOver     == 1    \* offerings of a long response beyond the limit of 50
MaxCalls    == 2    \* invocations of action_search_flights on the wizard
MaxLines    == 2    \* order lines added by action_add_selected_offers

(***************************************************************************)
(* Python dict and str helpers.                                            *)
(***************************************************************************)
Get(d, k, default) == IF k \in DOMAIN d THEN d[k] ELSE default

Range(s) == {s[i] : i \in 1..Len(s)}

Min(a, b) == IF a <= b THEN a ELSE b

\* str.upper() on one character (the letters the model uses)
UpperChar(c) ==
    CASE c = "l" -> "L" [] c = "h" -> "H" [] c = "r" -> "R"
      [] c = "j" -> "J" [] c = "f" -> "F" [] c = "k" -> "K"
      [] c = "c" -> "C" [] c = "d" -> "D" [] c = "g" -> "G"
      [] OTHER -> c

\* str.upper()
Upper(s) == [i \in 1..Len(s) |-> UpperChar(s[i])]

\* str.split(','): the pieces between commas, empty pieces included
RECURSIVE Split(_)
Split(s) ==
    IF \A i \in 1..Len(s) : s[i] # ","
    THEN <<s>>
    ELSE LET i == CHOOSE k \in 1..Len(s) :
                      s[k] = "," /\ \A j \in 1..(k - 1) : s[j] # ","
         IN  <<SubSeq(s, 1, i - 1)>> \o Split(SubSeq(s, i + 1, Len(s)))

\* str.strip(): leading and trailing blanks removed
RECURSIVE Strip(_)
Strip(s) ==
    IF s = <<>> THEN s
    ELSE IF Head(s) = " " THEN Strip(Tail(s))
    ELSE IF s[Len(s)] = " " THEN Strip(SubSeq(s, 1, Len(s) - 1))
    ELSE s

\* [age.strip() for age in s.split(',') if age.strip()]
StrippedAges(s) ==
    LET pieces == Split(s)
        stripped == [i \in 1..Len(pieces) |-> Strip(pieces[i])]
    IN  SelectSeq(stripped, LAMBDA a : a # <<>>)

Digits == {"0", "1", "2", "3", "4", "5", "6", "7", "8", "9"}

DigitValue(c) ==
    CASE c = "0" -> 0 [] c = "1" -> 1 [] c = "2" -> 2 [] c = "3" -> 3
      [] c = "4" -> 4 [] c = "5" -> 5 [] c = "6" -> 6 [] c = "7" -> 7
      [] c = "8" -> 8 [] c = "9" -> 9

\* whether int(tok) succeeds, for a stripped token over digits, blanks and
\* letters: a non-empty run of digits (an inner blank or a letter raises
\* ValueError)
IntParses(tok) == tok # <<>> /\ \A i \in 1..Len(tok) : tok[i] \in Digits

\* int(tok)
RECURSIVE IntOf(_)
IntOf(tok) ==
    IF tok = <<>> THEN 0
    ELSE 10 * IntOf(SubSeq(tok, 1, Len(tok) - 1)) + DigitValue(tok[Len(tok)])

\* date.strftime('%Y-%m-%d') for day d of the model's month
Strftime(d) == "2024-06-" \o (IF d < 10 THEN "0" ELSE "") \o ToString(d)

(***************************************************************************)
(* Wizard field values.                                                    *)
(***************************************************************************)
LHR == <<"L", "H", "R">>
JFK == <<"J", "F", "K">>
CDG == <<"C", "D", "G">>
lhr == <<"l", "h", "r">>
jfk == <<"j", "f", "k">>

NoDate == 0     \* an unset Date field (False)

Days == 1..MaxDay

CabinClasses == {"Economy", "Premium Economy", "Business", "First"}

AgeChars == {"5", "9", ",", " ", "x"}

RECURSIVE SeqsUpTo(_, _)
SeqsUpTo(S, n) ==
    IF n = 0 THEN {<<>>}
    ELSE LET shorter == SeqsUpTo(S, n - 1)
         IN  shorter \cup {Append(s, c) : s \in {t \in shorter : Len(t) = n - 1}, c \in S}

AgeStrings == SeqsUpTo(AgeChars, MaxAgeLen)

\* field defaults of the wizard (lines 39-65), departure_date being "today";
\* order_currency is sale_order_id.currency_id.name
DefaultWizard ==
    [origin |-> LHR, destination |-> JFK, departure_date |-> 1,
     is_round_trip |-> FALSE, return_date |-> NoDate,
     passenger_adult_count |-> 1, passenger_child_count |-> 0,
     passenger_child_ages |-> <<>>, cabin_class |-> "Economy",
     order_currency |-> "USD"]

(***************************************************************************)
(* Request builder: constraints.                                           *)
(***************************************************************************)
\* _check_child_ages: "ok", or the ValidationError raised
check_child_ages(w) ==
    IF w.passenger_child_count > 0
    THEN IF w.passenger_child_ages = <<>>
         THEN "Please enter child ages when children are included."
         ELSE IF Len(StrippedAges(w.passenger_child_ages)) # w.passenger_child_count
              THEN "Number of child ages must match number of children."
              ELSE "ok"
    ELSE "ok"

\* _check_return_date: "ok", or the ValidationError raised
check_return_date(w) ==
    IF w.is_round_trip /\ w.return_date = NoDate
    THEN "Return date is required for round trip searches."
    ELSE IF /\ w.is_round_trip
            /\ w.return_date # NoDate
            /\ w.departure_date # NoDate
            /\ w.return_date <= w.departure_date
         THEN "Return date must be after departure date."
         ELSE "ok"

(***************************************************************************)
(* Request builder: payload.                                               *)
(***************************************************************************)
\* the CNN entries of _prepare_passenger_criteria, one per age that int()
\* parses; an age that does not parse is logged and skipped
\* (ChildEntries_reversed: the entries prepended instead of appended)
RECURSIVE ChildEntries_reversed(_)
ChildEntries_reversed(ages) ==
    IF ages = <<>> THEN <<>>
    ELSE ChildEntries_reversed(Tail(ages))
         \o (IF IntParses(Head(ages))
             THEN <<[value |-> "CNN", number |-> 1, age |-> IntOf(Head(ages))]>>
             ELSE <<>>)

RECURSIVE ChildEntries(_)
ChildEntries(ages) ==
    IF ages = <<>> THEN <<>>
    ELSE (IF IntParses(Head(ages))
          THEN <<[value |-> "CNN", number |-> 1, age |-> IntOf(Head(ages))]>>
          ELSE <<>>)
         \o ChildEntries(Tail(ages))

\* _prepare_passenger_criteria
prepare_passenger_criteria(w) ==
    (IF w.passenger_adult_count > 0
     THEN <<[value |-> "ADT", number |-> w.passenger_adult_count]>>
     ELSE <<>>)
    \o
    (IF w.passenger_child_count > 0
     THEN ChildEntries(StrippedAges(w.passenger_child_ages))
     ELSE <<>>)

\* prepare_search_criteria_flight with the return leg in the outbound direction
prepare_search_criteria_flight_same_direction(w) ==
    <<[departureDate |-> Strftime(w.departure_date),
       From |-> [value |-> Upper(w.origin), cityOrAirport |-> "City or Airport"],
       To |-> [value |-> Upper(w.destination), cityOrAirport |-> "City or Airport"]]>>
    \o
    (IF w.is_round_trip /\ w.return_date # NoDate
     THEN <<[departureDate |-> Strftime(w.return_date),
             From |-> [value |-> Upper(w.origin)],
             To |-> [value |-> Upper(w.destination)]]>>
     ELSE <<>>)

\* _prepare_search_criteria_flight
prepare_search_criteria_flight(w) ==
    <<[departureDate |-> Strftime(w.departure_date),
       From |-> [value |-> Upper(w.origin), cityOrAirport |-> "City or Airport"],
       To |-> [value |-> Upper(w.destination), cityOrAirport |-> "City or Airport"]]>>
    \o
    (IF w.is_round_trip /\ w.return_date # NoDate
     THEN <<[departureDate |-> Strftime(w.return_date),
             From |-> [value |-> Upper(w.destination)],
             To |-> [value |-> Upper(w.origin)]]>>
     ELSE <<>>)

\* cabin_map.get(self.cabin_class, self.cabin_class)
\* CabinCode passing the selection value through unmapped
CabinCode_unmapped(c) == c

\* cabin_map.get(self.cabin_class, self.cabin_class), lines 209-216
CabinCode(c) ==
    CASE c = "Premium Economy" -> "PremiumEconomy"
      [] c = "Business" -> "Business"
      [] c = "First" -> "First"
      [] OTHER -> c

\* _prepare_api_payload
prepare_api_payload(w) ==
    LET base == [offersPerPage |-> 50,
                 sortBy |-> "Price-LowToHigh",
                 contentSourceList |-> <<"GDS", "NDC">>,
                 PassengerCriteria |-> prepare_passenger_criteria(w),
                 SearchCriteriaFlight |-> prepare_search_criteria_flight(w)]
    IN  [CatalogProductOfferingsQueryRequest |->
            [CustomResponseModifiersAir |->
                [SearchRepresentation |-> "Journey",
                 includeCo2EmissionsDataInd |-> TRUE,
                 includeFlightAmenitiesInd |-> TRUE],
             CatalogProductOfferingsRequest |->
                IF w.cabin_class # "" /\ w.cabin_class # "Economy"
                THEN [k \in DOMAIN base \cup {"Cabin"} |->
                         IF k = "Cabin" THEN <<CabinCode(w.cabin_class)>> ELSE base[k]]
                ELSE base]]

(***************************************************************************)
(* The request builder as a state machine: a wizard record is written      *)
(* (the constraints run), and when they pass the payload is prepared.      *)
(***************************************************************************)
Idle == /\ flight_offers = <<>>
        /\ order_lines = <<>>
        /\ calls = <<>>
        /\ clock = 0
        /\ last_done = 0
        /\ document = <<>>
        /\ request = <<>>

\* wizards that differ in their passengers only
InitPassengers ==
    /\ Idle
    /\ pc = "new"
    /\ out = <<>>
    /\ \E a \in 0..MaxAdults, n \in 0..MaxChildren, s \in AgeStrings :
          wizard = [DefaultWizard EXCEPT !.passenger_adult_count = a,
                                         !.passenger_child_count = n,
                                         !.passenger_child_ages = s]

\* wizards that differ in route, dates and cabin only ("" is a cabin class
\* left unset)
InitFlights ==
    /\ Idle
    /\ pc = "new"
    /\ out = <<>>
    /\ \E o \in {LHR, lhr, CDG}, d \in {JFK, jfk}, dep \in Days,
          rt \in BOOLEAN, ret \in {NoDate} \cup Days, c \in CabinClasses \cup {""} :
          wizard = [DefaultWizard EXCEPT !.origin = o, !.destination = d,
                                         !.departure_date = dep,
                                         !.is_round_trip = rt,
                                         !.return_date = ret,
                                         !.cabin_class = c]

\* the fields whose assignment invokes each constraint (@api.constrains,
\* lines 108 and 122), the constraints taken in the order of their names
check_child_ages_fields == {"passenger_child_count", "passenger_child_ages"}
check_return_date_fields == {"is_round_trip", "return_date"}

\* the first ValidationError among the constraints that the assignment of the
\* fields names invokes, "ok" when none raises
Validate(w, names) ==
    IF names \cap check_child_ages_fields # {} /\ check_child_ages(w) # "ok"
    THEN check_child_ages(w)
    ELSE IF names \cap check_return_date_fields # {}
         THEN check_return_date(w)
         ELSE "ok"

\* create() of the wizard: the form sends every field, so both constraints
\* are invoked; the first error rejects the record
Constrain ==
    /\ pc = "new"
    /\ LET raised == Validate(wizard, DOMAIN wizard)
       IN  /\ out' = [raised |-> raised]
           /\ pc' = IF raised = "ok" THEN "valid" ELSE "rejected"
    /\ UNCHANGED <<wizard, flight_offers, order_lines, calls, clock, last_done, document, request>>

\* write(vals) on the saved wizard: only the constraints that name one of the
\* written fields are invoked; an error leaves the record as it was
Write(vals) ==
    /\ pc = "valid"
    /\ LET written == [k \in DOMAIN wizard |->
                          IF k \in DOMAIN vals THEN vals[k] ELSE wizard[k]]
           raised == Validate(written, DOMAIN vals)
       IN  /\ out' = [raised |-> raised]
           /\ wizard' = IF raised = "ok" THEN written ELSE wizard
    /\ UNCHANGED <<flight_offers, order_lines, calls, clock, last_done, document,
                   request, pc>>

\* _prepare_api_payload on a saved record
Prepare ==
    /\ pc = "valid"
    /\ out' = [k \in DOMAIN out \cup {"payload"} |->
                  IF k = "payload" THEN prepare_api_payload(wizard) ELSE out[k]]
    /\ pc' = "built"
    /\ UNCHANGED <<wizard, flight_offers, order_lines, calls, clock, last_done, document, request>>

\* the writes of the passenger fields and of the date fields
PassengerWrites ==
    {[passenger_child_count |-> n] : n \in 0..MaxChildren}
    \cup {[passenger_child_ages |-> s] : s \in {<<>>, <<"5">>, <<"5", ",", "9">>}}
    \cup {[passenger_adult_count |-> a] : a \in 0..MaxAdults}

FlightWrites ==
    {[departure_date |-> d] : d \in Days}
    \cup {[return_date |-> d] : d \in {NoDate} \cup Days}
    \cup {[is_round_trip |-> b] : b \in BOOLEAN}
    \cup {[is_round_trip |-> TRUE, return_date |-> d] : d \in Days}

NextPassengers == Constrain \/ Prepare \/ \E vals \in PassengerWrites : Write(vals)
NextFlights    == Constrain \/ Prepare \/ \E vals \in FlightWrites : Write(vals)

SpecPassengers == InitPassengers /\ [][NextPassengers]_vars
SpecFlights    == InitFlights /\ [][NextFlights]_vars

(***************************************************************************)
(* Response interpreter (_process_flight_results).                         *)
(*                                                                         *)
(* The response is a record shaped as the JSON document; the key '@type'   *)
(* is the field "type".  Where the code accepts a value either as a dict   *)
(* or as a plain string (a segment's Flight, a flight's Origin and         *)
(* Destination) the plain string s is the record [plain |-> s], so         *)
(* isinstance(x, dict) is IsDict(x).  Ids, carriers and times are only      *)
(* compared and copied and are TLA+ strings; '' is the empty string and    *)
(* {} the empty record <<>>.  A price is a number of cents.  The text       *)
(* flight_details is the sequence of its lines ('\n'.join), each line a    *)
(* record of the values formatted into it.                                 *)
(***************************************************************************)
OfferLimit      == 50   \* catalog_offering_list[:50]
ProductRefLimit == 5    \* product_refs[:5]

EmptyDict == <<>>

IsDict(x) == "plain" \notin DOMAIN x

Prefix(s, n) == SubSeq(s, 1, Min(n, Len(s)))

RECURSIVE Concat(_)
Concat(ss) == IF ss = <<>> THEN <<>> ELSE Head(ss) \o Concat(Tail(ss))

\* the records of every reference-list item of the given '@type', in order
\* (key is 'Flight' or 'Product')
ReferenceRecords(reference_list, ref_type, key) ==
    Concat([i \in 1..Len(reference_list) |->
               IF Get(reference_list[i], "type", "") = ref_type
               THEN Get(reference_list[i], key, <<>>)
               ELSE <<>>])

\* the dict filled by "if id: map[id] = record" over the records in order:
\* a record without id is left out, a later record replaces an earlier one
MapById(records) ==
    LET ids == {Get(records[i], "id", "") : i \in 1..Len(records)} \ {""}
    IN  [id \in ids |->
            LET last == CHOOSE i \in 1..Len(records) :
                            /\ Get(records[i], "id", "") = id
                            /\ \A j \in (i + 1)..Len(records) :
                                  Get(records[j], "id", "") # id
            IN  records[last]]

flight_map(reference_list) ==
    MapById(ReferenceRecords(reference_list, "ReferenceListFlight", "Flight"))

product_map(reference_list) ==
    MapById(ReferenceRecords(reference_list, "ReferenceListProduct", "Product"))

\* origin_obj.get('value', '') if isinstance(origin_obj, dict) else origin_obj
PlaceCode(obj) == IF IsDict(obj) THEN Get(obj, "value", "") ELSE obj.plain

\* the line "<carrier><number>: <origin> -> <destination> (Dep: ..) (Arr: ..)"
\* of a flight record, appended only when carrier and number are non-empty;
\* an empty dep or arr stands for the part left out (lines 395-413, 420-435)
FlightInfo(flight) ==
    IF Get(flight, "carrier", "") # "" /\ Get(flight, "number", "") # ""
    THEN <<[kind |-> "flight",
            carrier |-> Get(flight, "carrier", ""),
            number |-> Get(flight, "number", ""),
            origin |-> PlaceCode(Get(flight, "Origin", EmptyDict)),
            destination |-> PlaceCode(Get(flight, "Destination", EmptyDict)),
            dep |-> Get(flight, "departureTime", ""),
            arr |-> Get(flight, "arrivalTime", "")]>>
    ELSE <<>>

\* the flight id a segment names (lines 386-390), "" when it names none
SegmentFlightId(segment) ==
    LET flight_ref == Get(segment, "Flight", EmptyDict)
    IN  IF IsDict(flight_ref) THEN Get(flight_ref, "FlightRef", "")
        ELSE flight_ref.plain

\* the lines of one segment (lines 392-413)
SegmentInfo(segment, fmap) ==
    LET flight_id == SegmentFlightId(segment)
    IN  IF flight_id # "" /\ flight_id \in DOMAIN fmap
        THEN FlightInfo(fmap[flight_id])
        ELSE <<>>

\* ProductInfo with the segments walked last to first
ProductInfo_segments_reversed(product_ref, fmap, pmap) ==
    IF product_ref \in DOMAIN pmap /\ Get(pmap[product_ref], "type", "") = "ProductAir"
    THEN LET flight_segments == Get(pmap[product_ref], "FlightSegment", <<>>)
             n == Len(flight_segments)
         IN  Concat([i \in 1..n |-> SegmentInfo(flight_segments[n + 1 - i], fmap)])
    ELSE <<>>

\* the lines of one product reference (lines 381-413)
ProductInfo(product_ref, fmap, pmap) ==
    IF product_ref \in DOMAIN pmap /\ Get(pmap[product_ref], "type", "") = "ProductAir"
    THEN LET flight_segments == Get(pmap[product_ref], "FlightSegment", <<>>)
         IN  Concat([i \in 1..Len(flight_segments) |->
                        SegmentInfo(flight_segments[i], fmap)])
    ELSE <<>>

\* the lines of a reference looked up directly in the flight map (417-435)
DirectInfo(product_ref, fmap) ==
    IF product_ref \in DOMAIN fmap THEN FlightInfo(fmap[product_ref]) ELSE <<>>

\* product_refs of an offering (lines 364-372)
ProductRefs(offering) ==
    LET product_options == Get(offering, "ProductOptions", <<>>)
    IN  Concat([i \in 1..Len(product_options) |->
                   IF "ProductRef" \in DOMAIN product_options[i]
                   THEN <<product_options[i].ProductRef>>
                   ELSE IF "FlightRefs" \in DOMAIN product_options[i]
                        THEN product_options[i].FlightRefs
                        ELSE <<>>])

\* flight_details of an offering (lines 379-435)
FlightDetails(offering, fmap, pmap) ==
    LET product_refs == ProductRefs(offering)
        limited == Prefix(product_refs, ProductRefLimit)
        by_product == Concat([i \in 1..Len(limited) |->
                                 ProductInfo(limited[i], fmap, pmap)])
    IN  IF by_product # <<>>
        THEN by_product
        ELSE Concat([i \in 1..Len(product_refs) |->
                        DirectInfo(product_refs[i], fmap)])

\* RouteLines without the test of is_round_trip
RouteLines_one_way_only(w) ==
    <<[kind |-> "route", origin |-> w.origin, destination |-> w.destination]>>

\* the generic lines used when no flight line was produced (lines 441-443)
RouteLines(w) ==
    <<[kind |-> "route", origin |-> w.origin, destination |-> w.destination]>>
    \o (IF w.is_round_trip
        THEN <<[kind |-> "return", origin |-> w.destination, destination |-> w.origin]>>
        ELSE <<>>)

\* the values of one offer record (lines 358-460); idx counts from 0
OfferVals(w, offering, idx, fmap, pmap) ==
    LET offering_id    == Get(offering, "id", "")
        total_price    == Get(offering, "TotalPrice", EmptyDict)
        price_value    == Get(total_price, "value", 0)
        price_currency == Get(total_price, "code", "USD")
        flight_details == FlightDetails(offering, fmap, pmap)
        description ==
            <<[kind |-> "offer", id |-> offering_id]>>
            \o (IF flight_details # <<>> THEN flight_details ELSE RouteLines(w))
            \o <<[kind |-> "price", code |-> price_currency, value |-> price_value]>>
    IN  [offer_id |-> offering_id,
         price |-> price_value,
         currency |-> price_currency,
         flight_details |-> description,
         raw_data |-> offering,
         selected |-> (idx = 0)]

\* the offerings the loop of line 357 visits
\* (LimitedOfferings_uncapped: the loop over the whole list)
LimitedOfferings_uncapped(catalog_offering_list) == catalog_offering_list

LimitedOfferings(catalog_offering_list) == Prefix(catalog_offering_list, OfferLimit)

\* _process_flight_results: the UserError raised (nothing was unlinked or
\* created), or the offer records that replace the wizard's flight_offers
\* process_flight_results returning normally, with no offer, when the
\* offering list is missing or empty
process_flight_results_silent(w, response_data) ==
    LET response == Get(response_data, "CatalogProductOfferingsResponse", EmptyDict)
        catalog_offerings == Get(response, "CatalogProductOfferings", EmptyDict)
        catalog_offering_list == Get(catalog_offerings, "CatalogProductOffering", <<>>)
        reference_list == Get(response, "ReferenceList", <<>>)
        fmap == flight_map(reference_list)
        pmap == product_map(reference_list)
        visited == LimitedOfferings(catalog_offering_list)
    IN  IF response = EmptyDict
        THEN [error |-> "No valid response from Travelport API."]
        ELSE [offers |-> [i \in 1..Len(visited) |->
                             OfferVals(w, visited[i], i - 1, fmap, pmap)]]

process_flight_results(w, response_data) ==
    LET response == Get(response_data, "CatalogProductOfferingsResponse", EmptyDict)
        catalog_offerings == Get(response, "CatalogProductOfferings", EmptyDict)
        catalog_offering_list == Get(catalog_offerings, "CatalogProductOffering", <<>>)
        reference_list == Get(response, "ReferenceList", <<>>)
        fmap == flight_map(reference_list)
        pmap == product_map(reference_list)
        visited == LimitedOfferings(catalog_offering_list)
    IN  IF response = EmptyDict
        THEN [error |-> "No valid response from Travelport API."]
        ELSE IF catalog_offering_list = <<>>
        THEN [error |-> "No flight offers found for the selected criteria."]
        ELSE [offers |-> [i \in 1..Len(visited) |->
                             OfferVals(w, visited[i], i - 1, fmap, pmap)]]

(***************************************************************************)
(* Response documents the interpreter is run on.                           *)
(***************************************************************************)
F1 == [type |-> "Flight", id |-> "F1", carrier |-> "BA", number |-> "117",
       departureTime |-> "2024-06-01T08:25:00",
       arrivalTime |-> "2024-06-01T11:05:00",
       Origin |-> [value |-> LHR], Destination |-> [value |-> JFK]]
\* origin and destination as plain strings, no times
F2 == [type |-> "Flight", id |-> "F2", carrier |-> "DL", number |-> "1",
       Origin |-> [plain |-> JFK], Destination |-> [plain |-> LHR]]
\* a flight record without carrier
F3 == [type |-> "Flight", id |-> "F3", number |-> "9",
       Origin |-> [value |-> LHR], Destination |-> [value |-> CDG]]
\* a second record with the id of F1
F1b == [type |-> "Flight", id |-> "F1", carrier |-> "VS", number |-> "4",
        departureTime |-> "2024-06-01T12:00:00",
        Origin |-> [value |-> LHR], Destination |-> [value |-> JFK]]

P1 == [type |-> "ProductAir", id |-> "P1",
       FlightSegment |-> <<[sequence |-> 1, Flight |-> [FlightRef |-> "F1"]],
                           [sequence |-> 2, Flight |-> [plain |-> "F2"]]>>]
P2 == [type |-> "ProductHotel", id |-> "P2",
       FlightSegment |-> <<[sequence |-> 1, Flight |-> [FlightRef |-> "F1"]]>>]
P3 == [type |-> "ProductAir", id |-> "P3",
       FlightSegment |-> <<[sequence |-> 1, Flight |-> [FlightRef |-> "F9"]]>>]
P4 == [type |-> "ProductAir", id |-> "P4",
       FlightSegment |-> <<[sequence |-> 1, Flight |-> [FlightRef |-> "F1"]],
                           [sequence |-> 2, Flight |-> [FlightRef |-> "F3"]]>>]

RefsFull ==
    <<[type |-> "ReferenceListFlight", Flight |-> <<F1, F2, F3>>],
      [type |-> "ReferenceListProduct", Product |-> <<P1, P2, P3, P4>>],
      [type |-> "ReferenceListTerms"]>>
RefsTwice ==
    <<[type |-> "ReferenceListProduct", Product |-> <<P1, P4>>],
      [type |-> "ReferenceListFlight", Flight |-> <<F1, F2>>],
      [type |-> "ReferenceListFlight", Flight |-> <<F3, F1b>>]>>
ReferenceLists == {RefsFull, RefsTwice, <<>>}

Shapes == 1..9

ShapeOptions(k) ==
    CASE k = 1 -> <<[type |-> "ProductOption", ProductRef |-> "P1"]>>
      [] k = 2 -> <<[type |-> "ProductOption", ProductRef |-> "P9"]>>
      [] k = 3 -> <<[type |-> "ProductOption", ProductRef |-> "P2"]>>
      [] k = 4 -> <<[type |-> "ProductOption", ProductRef |-> "P3"]>>
      [] k = 5 -> <<[type |-> "ProductOption", FlightRefs |-> <<"F1", "F2">>]>>
      [] k = 6 -> <<>>
      [] k = 7 -> <<[type |-> "ProductOption", ProductRef |-> "P4"]>>
      [] k = 8 -> <<[type |-> "ProductOption", ProductRef |-> "P1"],
                    [type |-> "ProductOption", FlightRefs |-> <<"F2">>]>>
      [] k = 9 -> [i \in 1..(ProductRefLimit + 1) |->
                      [type |-> "ProductOption", ProductRef |-> "P1"]]

\* the offering of shape k at position i; shape 6 has neither id, price nor options
Offering(k, i) ==
    IF k = 6 THEN [type |-> "CatalogProductOffering"]
    ELSE [type |-> "CatalogProductOffering",
          id |-> "Offer_" \o ToString(i),
          TotalPrice |-> [code |-> IF k % 2 = 0 THEN "EUR" ELSE "USD",
                          value |-> 45000 + 100 * i + k],
          ProductOptions |-> ShapeOptions(k)]

ShapeSeqs == SeqsUpTo(Shapes, MaxOfferings)

OfferingLists ==
    {[i \in 1..Len(ks) |-> Offering(ks[i], i)] : ks \in ShapeSeqs}
    \cup {[i \in 1..n |-> Offering(((i + 1) % 9) + 1, i)] :
             n \in (OfferLimit - 1)..(OfferLimit + MaxOver)}

ResponseDocs ==
    {EmptyDict,
     [error |-> "No search criteria provided"],
     [CatalogProductOfferingsResponse |-> EmptyDict],
     [CatalogProductOfferingsResponse |-> [ReferenceList |-> RefsFull]]}
    \cup {[CatalogProductOfferingsResponse |->
              [CatalogProductOfferings |-> [CatalogProductOffering |-> os],
               ReferenceList |-> rs]] : os \in OfferingLists, rs \in ReferenceLists}

\* an offer record left by an earlier search
StaleOffer ==
    [offer_id |-> "Stale", price |-> 1, currency |-> "USD",
     flight_details |-> <<[kind |-> "offer", id |-> "Stale"]>>,
     raw_data |-> EmptyDict, selected |-> TRUE]

InitInterpreter ==
    /\ order_lines = <<>>
    /\ calls = <<>>
    /\ clock = 0
    /\ last_done = 0
    /\ request = <<>>
    /\ pc = "new"
    /\ out = <<>>
    /\ flight_offers \in {<<>>, <<StaleOffer>>}
    /\ document \in ResponseDocs
    /\ \E o \in {LHR, lhr}, rt \in BOOLEAN :
          wizard = [DefaultWizard EXCEPT !.origin = o, !.is_round_trip = rt,
                                         !.return_date = IF rt THEN 2 ELSE NoDate]

\* ProcessResults without the unlink of line 353: the new records are created
\* next to the old ones
ProcessResults_without_unlink ==
    /\ pc \in {"new", "once"}
    /\ LET r == process_flight_results(wizard, document)
       IN  /\ out' = r
           /\ flight_offers' = IF "error" \in DOMAIN r THEN flight_offers
                                ELSE flight_offers \o r.offers
    /\ pc' = IF pc = "new" THEN "once" ELSE "twice"
    /\ UNCHANGED <<wizard, order_lines, calls, clock, last_done, document, request>>

\* one run of _process_flight_results on the response: either it raises and
\* the records stay as they were, or the old records are unlinked and the
\* new ones created
ProcessResults ==
    /\ pc \in {"new", "once"}
    /\ LET r == process_flight_results(wizard, document)
       IN  /\ out' = r
           /\ flight_offers' = IF "error" \in DOMAIN r THEN flight_offers ELSE r.offers
    /\ pc' = IF pc = "new" THEN "once" ELSE "twice"
    /\ UNCHANGED <<wizard, order_lines, calls, clock, last_done, document, request>>

SpecInterpreter == InitInterpreter /\ [][ProcessResults]_vars

(***************************************************************************)
(* Mock API server (mock_server/travelport_mock_server.py).                *)
(*                                                                         *)
(* A date in a request is the string the request builder formats, '' when  *)
(* the key is absent.  Prices are cents.  The draws of the random module    *)
(* are parameters of search_flights: the number of offers, and for each    *)
(* offer the position of the outbound flight, the position of the return   *)
(* flight and the float random.uniform returned.                           *)
(*                                                                         *)
(* A request may hold a JSON value of a type the code cannot use.  Where   *)
(* the code calls .get on a value, a value that is no object is the record *)
(* [plain |-> v], here always a JSON array.  Elsewhere the key itself      *)
(* tells the type of the value it holds in the request:                    *)
(*   number_str     'number' holding a string                              *)
(*   value_number   'value' (of From or To) holding a number               *)
(*   Cabin_object   'Cabin' holding a non-empty object                     *)
(*   Cabin_number   'Cabin' holding a number other than 0                  *)
(*   Cabin_numbers  'Cabin' holding a list of numbers                      *)
(*   Cabin_nested   'Cabin' holding a list of lists                        *)
(* Every exception ends in the handler's answer 500.                       *)
(***************************************************************************)
MOCK_FLIGHTS ==
    <<[carrier |-> "BA", number |-> "117", origin |-> LHR, destination |-> JFK,
       departure_time |-> "08:25:00", arrival_time |-> "11:05:00", aircraft |-> "777"],
      [carrier |-> "AA", number |-> "100", origin |-> LHR, destination |-> JFK,
       departure_time |-> "10:30:00", arrival_time |-> "13:15:00", aircraft |-> "787"],
      [carrier |-> "VS", number |-> "4", origin |-> LHR, destination |-> JFK,
       departure_time |-> "12:00:00", arrival_time |-> "14:45:00", aircraft |-> "A350"],
      [carrier |-> "DL", number |-> "1", origin |-> JFK, destination |-> LHR,
       departure_time |-> "22:00:00", arrival_time |-> "09:30:00", aircraft |-> "A330"],
      [carrier |-> "BA", number |-> "178", origin |-> JFK, destination |-> LHR,
       departure_time |-> "20:15:00", arrival_time |-> "07:45:00", aircraft |-> "777"]>>

\* BASE_PRICES, in cents
BASE_PRICES ==
    [c \in CabinClasses |->
        CASE c = "Economy" -> 45000
          [] c = "Premium Economy" -> 85000
          [] c = "Business" -> 250000
          [] c = "First" -> 500000]

generate_flight_id(index) == "Flight_" \o index
generate_offering_id(index) == "Offer_" \o ToString(index)
generate_product_id(index) == "Product_" \o ToString(index)

\* get_mock_flights_for_route for codes that are strings (what .upper() does
\* to a code that is no string is in Received); the mutant matches the codes
\* as given
get_mock_flights_for_route_exact_case(origin, destination, departure_date, return_date) ==
    [outbound |-> SelectSeq(MOCK_FLIGHTS,
                     LAMBDA f : f.origin = origin /\ f.destination = destination),
     return |-> IF return_date # ""
                THEN SelectSeq(MOCK_FLIGHTS,
                        LAMBDA f : f.origin = destination /\ f.destination = origin)
                ELSE <<>>]

get_mock_flights_for_route(origin, destination, departure_date, return_date) ==
    [outbound |-> SelectSeq(MOCK_FLIGHTS,
                     LAMBDA f : /\ f.origin = Upper(origin)
                                /\ f.destination = Upper(destination)),
     return |-> IF return_date # ""
                THEN SelectSeq(MOCK_FLIGHTS,
                        LAMBDA f : /\ f.origin = Upper(destination)
                                   /\ f.destination = Upper(origin))
                ELSE <<>>]

build_flight_reference(flight, flight_id, departure_date) ==
    [type |-> "Flight",
     id |-> flight_id,
     carrier |-> flight.carrier,
     number |-> flight.number,
     departureTime |-> departure_date \o "T" \o flight.departure_time,
     arrivalTime |-> departure_date \o "T" \o flight.arrival_time,
     Origin |-> [value |-> flight.origin],
     Destination |-> [value |-> flight.destination],
     Aircraft |-> [value |-> flight.aircraft]]

\* build_product_air: the ProductAir record (the flight_refs it also returns
\* are not used by the caller)
build_product_air(flights, product_id, departure_date) ==
    [type |-> "ProductAir",
     id |-> product_id,
     Quantity |-> 1,
     FlightSegment |->
        [i \in 1..Len(flights) |->
            LET segment == [type |-> "FlightSegment",
                            sequence |-> i,
                            Flight |-> [type |-> "FlightID",
                                        FlightRef |-> generate_flight_id(
                                            product_id \o "_" \o ToString(i - 1))]]
            IN  IF i < Len(flights)
                THEN [k \in DOMAIN segment \cup {"connectionDuration"} |->
                         IF k = "connectionDuration" THEN "PT2H30M" ELSE segment[k]]
                ELSE segment]]

(***************************************************************************)
(* Python floats.  calculate_price multiplies floats and rounds the result  *)
(* to two places; which cent a product close to a half cent rounds to is    *)
(* decided by the rounding of each float operation.  The operations are     *)
(* carried out here on whole numbers of any size, a number being the        *)
(* sequence of its digits to the base 2^15, lowest digit first.             *)
(***************************************************************************)
Digit == 2^15
\* the bits of the mantissa of a Python float
DoubleBits == 53

Power2(k) == 2^k

RECURSIVE BigNorm(_)
BigNorm(x) ==
    IF x # <<>> /\ x[Len(x)] = 0 THEN BigNorm(SubSeq(x, 1, Len(x) - 1)) ELSE x

Big(n) == BigNorm(<<n % Digit, (n \div Digit) % Digit, n \div (Digit * Digit)>>)

RECURSIVE BigInt(_)
BigInt(x) == IF x = <<>> THEN 0 ELSE Head(x) + Digit * BigInt(Tail(x))

RECURSIVE BigTimesCarry(_, _, _)
BigTimesCarry(x, c, carry) ==
    IF x = <<>>
    THEN (IF carry = 0 THEN <<>> ELSE Big(carry))
    ELSE LET t == Head(x) * c + carry
         IN  <<t % Digit>> \o BigTimesCarry(Tail(x), c, t \div Digit)

\* x * c, c below 2^16
BigTimes(x, c) == BigNorm(BigTimesCarry(x, c, 0))

\* x * 2^k
BigShiftLeft(x, k) ==
    IF x = <<>> THEN <<>>
    ELSE [i \in 1..(k \div 15) |-> 0] \o BigTimes(x, Power2(k % 15))

RECURSIVE BigDivRem(_, _, _)
\* quotient digits (highest first) and remainder of x / d, going down from
\* the highest digit
BigDivRem(x, d, rem) ==
    IF x = <<>>
    THEN [quotient |-> <<>>, remainder |-> rem]
    ELSE LET t == rem * Digit + x[Len(x)]
             rest == BigDivRem(SubSeq(x, 1, Len(x) - 1), d, t % d)
         IN  [quotient |-> rest.quotient \o <<t \div d>>,
              remainder |-> rest.remainder]

RECURSIVE BigPlusCarry(_, _, _)
BigPlusCarry(x, y, carry) ==
    IF x = <<>> /\ y = <<>>
    THEN (IF carry = 0 THEN <<>> ELSE <<carry>>)
    ELSE LET t == (IF x = <<>> THEN 0 ELSE Head(x))
                  + (IF y = <<>> THEN 0 ELSE Head(y)) + carry
         IN  <<t % Digit>>
             \o BigPlusCarry(IF x = <<>> THEN <<>> ELSE Tail(x),
                             IF y = <<>> THEN <<>> ELSE Tail(y), t \div Digit)

BigPlus(x, y) == BigPlusCarry(x, y, 0)

RECURSIVE BigMinusBorrow(_, _, _)
BigMinusBorrow(x, y, borrow) ==
    IF x = <<>> THEN <<>>
    ELSE LET t == Head(x) - (IF y = <<>> THEN 0 ELSE Head(y)) - borrow
         IN  <<t % Digit>>
             \o BigMinusBorrow(Tail(x), IF y = <<>> THEN <<>> ELSE Tail(y),
                               IF t < 0 THEN 1 ELSE 0)

\* x - y for x >= y
BigMinus(x, y) == BigNorm(BigMinusBorrow(x, y, 0))

RECURSIVE BitLength(_)
BitLength(n) == IF n = 0 THEN 0 ELSE 1 + BitLength(n \div 2)

BigBitLength(x) ==
    IF x = <<>> THEN 0 ELSE 15 * (Len(x) - 1) + BitLength(x[Len(x)])

\* x / 2^k rounded to the nearest integer, a half to the even one
BigShiftRightEven(x, k) ==
    IF k = 0 THEN x
    ELSE IF k - 1 >= 15 * Len(x) THEN <<>>
    ELSE LET whole == (k - 1) \div 15
             low == SubSeq(x, 1, whole)
             high == SubSeq(x, whole + 1, Len(x))
             qr == BigDivRem(high, Power2((k - 1) % 15), 0)
             y == BigNorm(qr.quotient)       \* x div 2^(k-1)
             sticky == qr.remainder # 0 \/ \E i \in 1..Len(low) : low[i] # 0
             half == y # <<>> /\ y[1] % 2 = 1
             q == BigNorm(BigDivRem(y, 2, 0).quotient)
             odd == q # <<>> /\ q[1] % 2 = 1
         IN  IF half /\ (sticky \/ odd) THEN BigPlus(q, <<1>>) ELSE q

\* a Python float: mantissa * 2^-scale, with the mantissa rounded to
\* DoubleBits bits, a half to even
Double(mantissa, scale) ==
    LET length == BigBitLength(mantissa)
        drop == IF length > DoubleBits THEN length - DoubleBits ELSE 0
    IN  [mantissa |-> BigShiftRightEven(mantissa, drop), scale |-> scale - drop]

\* x * y
RECURSIVE BigTimesBig(_, _)
BigTimesBig(x, y) ==
    IF y = <<>> \/ x = <<>> THEN <<>>
    ELSE BigNorm(BigPlus(BigTimes(x, Head(y)), <<0>> \o BigTimesBig(x, Tail(y))))

\* the float nearest to a / 10000 for a >= 0: the quotient to 80 binary
\* places, with one more place that tells whether the division left a
\* remainder
DoubleOfTenThousandths(a) ==
    LET qr == BigDivRem(BigShiftLeft(Big(a), 80), 10000, 0)
    IN  Double(BigPlus(BigTimes(BigNorm(qr.quotient), 2),
                       IF qr.remainder = 0 THEN <<>> ELSE <<1>>), 81)

\* a float with its sign, as random.uniform returns it: the float written
\* jitter / 10000 in Python (jitter = -997 is the float -0.0997)
Uniform(jitter) ==
    LET u == DoubleOfTenThousandths(IF jitter < 0 THEN -jitter ELSE jitter)
    IN  [negative |-> jitter < 0, mantissa |-> u.mantissa, scale |-> u.scale]

\* random.uniform(-0.1, 0.1) is a + (b - a) * random() with random() from 0
\* up to 1 - 2^-53.  The least value it returns is the float -0.1
LeastUniform == Uniform(-1000)

\* and the greatest -0.1 + 0.2 * (1 - 2^-53), each operation rounded: the
\* float 0.09999999999999998
GreatestUniform ==
    LET tenth == DoubleOfTenThousandths(1000)
        width == [mantissa |-> tenth.mantissa, scale |-> tenth.scale - 1]
        reach == Double(BigMinus(BigShiftLeft(width.mantissa, DoubleBits),
                                 width.mantissa),
                        width.scale + DoubleBits)
        sum == Double(BigMinus(BigShiftLeft(reach.mantissa,
                                            tenth.scale - reach.scale),
                               tenth.mantissa),
                      tenth.scale)
    IN  [negative |-> FALSE, mantissa |-> sum.mantissa, scale |-> sum.scale]

\* the float 1 + u for the float u
OnePlus(u) ==
    LET one == BigShiftLeft(<<1>>, u.scale)
    IN  Double(IF u.negative THEN BigMinus(one, u.mantissa)
               ELSE BigPlus(one, u.mantissa), u.scale)

\* round(dollars * (1 + u), 2) in cents, dollars a whole number held by a
\* float exactly
RoundedProduct(dollars, u) ==
    LET w == OnePlus(u)
        price == Double(BigTimesBig(w.mantissa, Big(dollars)), w.scale)
    IN  BigInt(BigShiftRightEven(BigTimes(price.mantissa, 100), price.scale))

\* calculate_price, in cents.  base * passengers (* 1.8 when round trip) is a
\* whole number of dollars, which the float operations of lines 161-164 give
\* exactly; uniform is the float random.uniform(-0.1, 0.1) returned;
\* base_price is not used.  The product with 1 + uniform and its rounding to
\* two places are the float operations of lines 166-167.
calculate_price(base_price, cabin_class, num_passengers, is_round_trip, uniform) ==
    LET price == IF cabin_class \in DOMAIN BASE_PRICES
                 THEN BASE_PRICES[cabin_class] ELSE BASE_PRICES["Economy"]
        trip == IF is_round_trip THEN (price * num_passengers * 18) \div 10
                ELSE price * num_passengers
    IN  RoundedProduct(trip \div 100, uniform)

RECURSIVE Sum(_)
Sum(ns) == IF ns = <<>> THEN 0 ELSE Head(ns) + Sum(Tail(ns))

\* random.choice(flights), d being the position drawn
Choice(flights, d) == flights[d]

\* NoFlightsResponse answering with an error status
NoFlightsResponse_not_found ==
    [status |-> 404, body |-> [error |-> "No flights found"]]

\* the answer of lines 216-225 when no outbound flight matches
NoFlightsResponse ==
    [status |-> 200,
     body |-> [CatalogProductOfferingsResponse |->
                  [CatalogProductOfferings |-> [CatalogProductOffering |-> <<>>],
                   ReferenceList |-> <<>>]]]

\* the answer of the except branch (lines 310-317)
ServerError(type, message) ==
    [status |-> 500, body |-> [error |-> message, type |-> type]]

\* .get called on a JSON array
GetOnList == ServerError("AttributeError", "'list' object has no attribute 'get'")
\* sum() reaching a number given as a string (line 205)
SumOfString ==
    ServerError("TypeError", "unsupported operand type(s) for +: 'int' and 'str'")
\* BASE_PRICES.get of a cabin class that is a list (line 261)
UnhashableCabin == ServerError("TypeError", "unhashable type: 'list'")
\* cabin_list[0] on an object without the key 0 (line 209)
CabinObject == ServerError("KeyError", "0")
\* cabin_list[0] on a number (line 209)
CabinNumber == ServerError("TypeError", "'int' object is not subscriptable")
\* .upper() called on a number (lines 97, 102)
UpperOnNumber ==
    ServerError("AttributeError", "'int' object has no attribute 'upper'")

\* search_flights up to the first draw (lines 173-225, and the first use of
\* the cabin class as a key, line 261, which no draw changes): [answer] when
\* the handler ends there, the values the offers are built from otherwise.
\* A cabin class that is a number is written as its digits: it is hashable
\* and no key of BASE_PRICES.
Received(data) ==
    IF ~IsDict(data) THEN [answer |-> GetOnList] ELSE
    LET query_request == Get(data, "CatalogProductOfferingsQueryRequest", EmptyDict)
    IN  IF ~IsDict(query_request) THEN [answer |-> GetOnList] ELSE
    LET catalog_request == Get(query_request, "CatalogProductOfferingsRequest", EmptyDict)
    IN  IF ~IsDict(catalog_request) THEN [answer |-> GetOnList] ELSE
    LET search_criteria == Get(catalog_request, "SearchCriteriaFlight", <<>>)
        passenger_criteria == Get(catalog_request, "PassengerCriteria", <<>>)
    IN  IF search_criteria = <<>>
        THEN [answer |-> [status |-> 400,
                          body |-> [error |-> "No search criteria provided"]]]
        ELSE
    LET outbound_criteria == search_criteria[1]
    IN  IF \/ ~IsDict(outbound_criteria)
           \/ ~IsDict(Get(outbound_criteria, "From", EmptyDict))
           \/ ~IsDict(Get(outbound_criteria, "To", EmptyDict))
           \/ (Len(search_criteria) > 1 /\ ~IsDict(search_criteria[2]))
        THEN [answer |-> GetOnList]
        ELSE
    LET origin == Get(Get(outbound_criteria, "From", EmptyDict), "value", <<>>)
        destination == Get(Get(outbound_criteria, "To", EmptyDict), "value", <<>>)
        departure_date == Get(outbound_criteria, "departureDate", "")
        return_date == IF Len(search_criteria) > 1
                       THEN Get(search_criteria[2], "departureDate", "")
                       ELSE ""
        unusable == {i \in 1..Len(passenger_criteria) :
                        \/ ~IsDict(passenger_criteria[i])
                        \/ "number_str" \in DOMAIN passenger_criteria[i]}
    IN  IF unusable # {}
        THEN LET i == CHOOSE j \in unusable : \A k \in unusable : j <= k
             IN  [answer |-> IF IsDict(passenger_criteria[i])
                             THEN SumOfString ELSE GetOnList]
        ELSE
    LET total_passengers ==
            Sum([i \in 1..Len(passenger_criteria) |->
                    Get(passenger_criteria[i], "number", 1)])
    IN  IF "Cabin_object" \in DOMAIN catalog_request
        THEN [answer |-> CabinObject]
        ELSE IF "Cabin_number" \in DOMAIN catalog_request
        THEN [answer |-> CabinNumber]
        ELSE
    LET cabin_list == IF "Cabin_numbers" \in DOMAIN catalog_request
                      THEN [i \in DOMAIN catalog_request.Cabin_numbers |->
                               ToString(catalog_request.Cabin_numbers[i])]
                      ELSE Get(catalog_request, "Cabin", <<>>)
        cabin_class == IF cabin_list # <<>> THEN cabin_list[1] ELSE "Economy"
        \* get_mock_flights_for_route: origin.upper() is evaluated for every
        \* flight of the table, destination.upper() for the flights from the
        \* origin (line 97) and, when there is a return date, for every
        \* flight (line 102)
        origin_number ==
            "value_number" \in DOMAIN Get(outbound_criteria, "From", EmptyDict)
        destination_number ==
            "value_number" \in DOMAIN Get(outbound_criteria, "To", EmptyDict)
        from_origin == \E i \in DOMAIN MOCK_FLIGHTS :
                          MOCK_FLIGHTS[i].origin = Upper(origin)
    IN  IF \/ origin_number
           \/ destination_number /\ (from_origin \/ return_date # "")
        THEN [answer |-> UpperOnNumber]
        ELSE
    LET found == get_mock_flights_for_route(origin, destination,
                                            departure_date, return_date)
    IN  IF found.outbound = <<>>
        THEN [answer |-> NoFlightsResponse]
        ELSE IF Get(catalog_request, "Cabin_nested", <<>>) # <<>>
        THEN [answer |-> UnhashableCabin]
        ELSE [found |-> found,
              departure_date |-> departure_date,
              return_date |-> return_date,
              total_passengers |-> total_passengers,
              cabin_class |-> cabin_class]

\* search_flights: [status, body] for the request document data, num_offers
\* being the draw of random.randint(3, 5) and draws[offer_idx] the draws made
\* for one offer
search_flights(data, num_offers, draws) ==
    LET received == Received(data)
    IN  IF "answer" \in DOMAIN received
        THEN received.answer
        ELSE
        LET found == received.found
            departure_date == received.departure_date
            return_date == received.return_date
            total_passengers == received.total_passengers
            cabin_class == received.cabin_class
        IN
            LET flight_list(offer_idx) ==
                    <<Choice(found.outbound, draws[offer_idx].outbound)>>
                    \o (IF found.return # <<>>
                        THEN <<Choice(found.return, draws[offer_idx].return)>>
                        ELSE <<>>)
                product_id(offer_idx) == generate_product_id(offer_idx)
                flight_refs(offer_idx) ==
                    LET flights == flight_list(offer_idx)
                    IN  [i \in 1..Len(flights) |->
                            build_flight_reference(
                                flights[i],
                                generate_flight_id(product_id(offer_idx) \o "_"
                                                   \o ToString(i - 1)),
                                IF i = 1 THEN departure_date ELSE return_date)]
                \* calculate_price for each float drawn (offers that drew
                \* the same float are priced once)
                total_prices ==
                    {[uniform |-> uniform,
                      price |-> calculate_price(
                                   IF cabin_class \in DOMAIN BASE_PRICES
                                   THEN BASE_PRICES[cabin_class]
                                   ELSE BASE_PRICES["Economy"],
                                   cabin_class, total_passengers,
                                   return_date # "", uniform)] :
                        uniform \in {draws[i].uniform : i \in 0..(num_offers - 1)}}
                total_price(offer_idx) ==
                    (CHOOSE drawn \in total_prices :
                        drawn.uniform = draws[offer_idx].uniform).price
                offering(offer_idx) ==
                    [type |-> "CatalogProductOffering",
                     id |-> generate_offering_id(offer_idx),
                     TotalPrice |->
                        [code |-> "USD",
                         value |-> total_price(offer_idx)],
                     ProductOptions |-> <<[type |-> "ProductOption",
                                           ProductRef |-> product_id(offer_idx)]>>]
                offerings == [i \in 1..num_offers |-> offering(i - 1)]
                product_references ==
                    [i \in 1..num_offers |->
                        build_product_air(flight_list(i - 1), product_id(i - 1),
                                          departure_date)]
                flight_references ==
                    Concat([i \in 1..num_offers |-> flight_refs(i - 1)])
            IN  [status |-> 200,
                 body |-> [CatalogProductOfferingsResponse |->
                              [CatalogProductOfferings |->
                                  [CatalogProductOffering |-> offerings],
                               ReferenceList |->
                                  <<[type |-> "ReferenceListFlight",
                                     Flight |-> flight_references],
                                    [type |-> "ReferenceListProduct",
                                     Product |-> product_references]>>]]]

(***************************************************************************)
(* The mock server as a state machine: a request arrives and is answered.  *)
(***************************************************************************)
Absent == "absent"

\* a leg of SearchCriteriaFlight; a field given as Absent is left out
Leg(date, from, to) ==
    LET all == [departureDate |-> date, From |-> [value |-> from], To |-> [value |-> to]]
        keys == {k \in DOMAIN all :
                    \/ k = "departureDate" /\ date # Absent
                    \/ k = "From" /\ from # <<Absent>>
                    \/ k = "To" /\ to # <<Absent>>}
    IN  [k \in keys |-> all[k]]

\* a JSON array where the code expects an object
JsonList == [plain |-> <<>>]

PassengerLists ==
    {<<[value |-> "ADT", number |-> 1]>>,
     <<[value |-> "ADT", number |-> 2], [value |-> "CNN", number |-> 1, age |-> 5]>>,
     <<[value |-> "ADT"]>>,
     <<>>,
     <<[value |-> "ADT", number |-> 1], [value |-> "CNN", number_str |-> "2"]>>,
     <<[value |-> "ADT", number_str |-> "2"], JsonList>>,
     <<JsonList>>}

CabinLists == {<<Absent>>, <<"PremiumEconomy">>, <<"Business">>, <<"First">>}

MockRequest(legs, passengers, cabin) ==
    LET all == [SearchCriteriaFlight |-> legs, PassengerCriteria |-> passengers,
                Cabin |-> cabin]
        keys == {k \in DOMAIN all : k = "Cabin" => cabin # <<Absent>>}
    IN  [CatalogProductOfferingsQueryRequest |->
            [CatalogProductOfferingsRequest |-> [k \in keys |-> all[k]]]]

\* the requests with 'Cabin': [['x']], 'Cabin': [5], 'Cabin': 5 and
\* 'Cabin': {'code': 'Business'}
NestedCabin(legs, passengers) ==
    [CatalogProductOfferingsQueryRequest |->
        [CatalogProductOfferingsRequest |->
            [SearchCriteriaFlight |-> legs, PassengerCriteria |-> passengers,
             Cabin_nested |-> <<<<"x">>>>]]]

NumbersCabin(legs, passengers) ==
    [CatalogProductOfferingsQueryRequest |->
        [CatalogProductOfferingsRequest |->
            [SearchCriteriaFlight |-> legs, PassengerCriteria |-> passengers,
             Cabin_numbers |-> <<5>>]]]

NumberCabin(legs, passengers) ==
    [CatalogProductOfferingsQueryRequest |->
        [CatalogProductOfferingsRequest |->
            [SearchCriteriaFlight |-> legs, PassengerCriteria |-> passengers,
             Cabin_number |-> 5]]]

ObjectCabin(legs, passengers) ==
    [CatalogProductOfferingsQueryRequest |->
        [CatalogProductOfferingsRequest |->
            [SearchCriteriaFlight |-> legs, PassengerCriteria |-> passengers,
             Cabin_object |-> [code |-> "Business"]]]]

\* a From or To whose 'value' is the number 5
NumberPlace == [value_number |-> 5]

MockRoutes ==
    {<<LHR, JFK>>, <<lhr, jfk>>, <<JFK, LHR>>,
     <<CDG, JFK>>, <<LHR, LHR>>, <<<<Absent>>, JFK>>}

OneAdult == <<[value |-> "ADT", number |-> 1]>>

\* the requests sent to the mock: every route one way, with a second leg
\* without a date and (two routes) with a dated second leg; on two one-way
\* routes every passenger list and every cabin list; and documents with a
\* value of another type than the payload has in its place
MockRequests ==
    {MockRequest(<<Leg(Strftime(1), route[1], route[2])>> \o second,
                 OneAdult, <<Absent>>) :
        route \in MockRoutes,
        second \in {<<>>, <<Leg(Absent, JFK, LHR)>>}}
    \cup
    {MockRequest(<<Leg(Strftime(1), route[1], route[2]),
                   Leg(Strftime(2), route[2], route[1])>>,
                 OneAdult, <<Absent>>) :
        route \in {<<lhr, jfk>>, <<CDG, JFK>>}}
    \cup
    {MockRequest(<<Leg(Strftime(1), route[1], route[2])>>, ps, <<Absent>>) :
        route \in {<<LHR, JFK>>, <<CDG, JFK>>},
        ps \in PassengerLists}
    \cup
    {MockRequest(<<Leg(Strftime(1), route[1], route[2])>>, OneAdult, cabin) :
        route \in {<<LHR, JFK>>, <<CDG, JFK>>},
        cabin \in CabinLists}
    \cup
    UNION {{NestedCabin(<<Leg(Strftime(1), route[1], route[2])>>, OneAdult),
            NumbersCabin(<<Leg(Strftime(1), route[1], route[2])>>, OneAdult),
            NumberCabin(<<Leg(Strftime(1), route[1], route[2])>>, OneAdult),
            ObjectCabin(<<Leg(Strftime(1), route[1], route[2])>>, OneAdult)} :
        route \in {<<LHR, JFK>>, <<CDG, JFK>>}}
    \cup
    {MockRequest(<<[Leg(Strftime(1), route[1], route[2])
                       EXCEPT ![place] = NumberPlace]>> \o second,
                 OneAdult, <<Absent>>) :
        route \in {<<LHR, JFK>>, <<CDG, JFK>>},
        place \in {"From", "To"},
        second \in {<<>>, <<Leg(Strftime(2), JFK, LHR)>>}}
    \cup
    {MockRequest(<<Leg(Strftime(1), route[1], route[2]),
                   [Leg(Strftime(2), route[2], route[1]) EXCEPT !.From = place]>>,
                 OneAdult, <<Absent>>) :
        route \in {<<LHR, JFK>>, <<CDG, JFK>>},
        place \in {JsonList, NumberPlace}}
    \cup
    {EmptyDict,
     JsonList,
     [CatalogProductOfferingsQueryRequest |-> JsonList],
     [CatalogProductOfferingsQueryRequest |->
         [CatalogProductOfferingsRequest |-> JsonList]],
     MockRequest(<<>>, <<>>, <<Absent>>),
     MockRequest(<<>>, <<JsonList>>, <<Absent>>),
     MockRequest(<<JsonList>>, OneAdult, <<Absent>>),
     MockRequest(<<[Leg(Strftime(1), LHR, JFK) EXCEPT !.From = JsonList]>>,
                 OneAdult, <<Absent>>),
     MockRequest(<<[Leg(Strftime(1), LHR, JFK) EXCEPT !.To = JsonList]>>,
                 OneAdult, <<Absent>>),
     MockRequest(<<Leg(Strftime(1), LHR, JFK), JsonList>>,
                 OneAdult, <<Absent>>),
     ObjectCabin(<<Leg(Strftime(1), LHR, JFK)>>,
                 <<[value |-> "ADT", number_str |-> "2"]>>),
     ObjectCabin(<<[Leg(Strftime(1), LHR, JFK) EXCEPT !.From = NumberPlace]>>,
                 OneAdult),
     NestedCabin(<<[Leg(Strftime(1), LHR, JFK) EXCEPT !.From = NumberPlace]>>,
                 OneAdult)}

\* the flights one offer can draw among the flights found: the positions
\* random.choice picks (no return flight is drawn when none was found)
ChoicesAmong(found) ==
    [outbound : 1..Len(found.outbound),
     return : 1..(IF found.return = <<>> THEN 1 ELSE Len(found.return))]

\* the draws of num_offers offers that chose the flights choices, each offer
\* its own, and all drew the float uniform
Drawn(num_offers, choices, uniform) ==
    [i \in 0..(num_offers - 1) |->
        [outbound |-> choices[i].outbound,
         return |-> choices[i].return,
         uniform |-> uniform]]

\* search_flights with its draws.  The number of offers is any of 3..5 and
\* every offer chooses its flights afresh among the flights found.  The
\* float random.uniform returns changes nothing but the offer's
\* TotalPrice.value, which does not fall when the float grows (a float
\* product and a rounding): answers holds the answer in which every offer
\* drew the least float and the answer in which every offer drew the
\* greatest, and stands for the answers with the same flights in which each
\* TotalPrice.value is any price from its value in least to its value in
\* most, each offer drawing its own.  An answer given before the first draw
\* is both.
Answered(data, answers) ==
    LET received == Received(data)
    IN  IF "answer" \in DOMAIN received
        THEN answers = [least |-> received.answer, most |-> received.answer]
        ELSE \E num_offers \in 3..5 :
               \E choices \in [0..(num_offers - 1) -> ChoicesAmong(received.found)] :
                  answers =
                     [least |-> search_flights(data, num_offers,
                                   Drawn(num_offers, choices, LeastUniform)),
                      most |-> search_flights(data, num_offers,
                                   Drawn(num_offers, choices, GreatestUniform))]

InitMock ==
    /\ wizard = DefaultWizard
    /\ flight_offers = <<>>
    /\ order_lines = <<>>
    /\ calls = <<>>
    /\ clock = 0
    /\ last_done = 0
    /\ document = <<>>
    /\ pc = "new"
    /\ out = <<>>
    /\ request \in MockRequests

\* POST /11/air/catalog/search/catalogproductofferings: out holds the
\* answers at the least and the greatest draw of random.uniform
MockSearch ==
    /\ pc = "new"
    /\ Answered(request, out')
    /\ pc' = "answered"
    /\ UNCHANGED <<wizard, flight_offers, order_lines, calls, clock, last_done,
                   document, request>>

SpecMock == InitMock /\ [][MockSearch]_vars

(***************************************************************************)
(* The wizard as a state machine.                                          *)
(*                                                                         *)
(* action_search_flights blocks in requests.post, so an invocation is two  *)
(* steps: StartSearch up to the POST, FinishSearch from the answer to the   *)
(* return.  Invocations are numbered in the order they start; a second one *)
(* may start while the first waits (two requests to the server for the     *)
(* same wizard record).  A UserError leaves the records as they were.  The  *)
(* fields call and after of a record are not fields of the code: call is   *)
(* the invocation that created the record, after the invocation that had  *)
(* completed last when it was created; superseded marks an invocation      *)
(* during whose wait a newer search started.                               *)
(***************************************************************************)
\* the documents the API answers a search with
TwoOfferings ==
    [CatalogProductOfferingsResponse |->
        [CatalogProductOfferings |->
            [CatalogProductOffering |-> <<Offering(2, 1), Offering(1, 2)>>],
         ReferenceList |-> RefsFull]]

\* the draws of an answer of three offers, one per outbound flight, priced
\* without jitter
FixedDraws ==
    [i \in 0..2 |-> [outbound |-> i + 1, return |-> 1, uniform |-> Uniform(0)]]

ApiDocuments(w) ==
    {EmptyDict,
     NoFlightsResponse.body,
     [CatalogProductOfferingsResponse |-> [ReferenceList |-> RefsFull]],
     TwoOfferings,
     search_flights(prepare_api_payload(w), 3, FixedDraws).body}

\* what requests.post and response.json() make of the exchange
ApiAnswers(w) ==
    {[kind |-> "request_exception", document |-> EmptyDict],
     [kind |-> "http_error", document |-> EmptyDict],
     [kind |-> "bad_json", document |-> EmptyDict]}
    \cup {[kind |-> "ok", document |-> d] : d \in ApiDocuments(w)}

Wizards ==
    {DefaultWizard,
     [DefaultWizard EXCEPT !.origin = lhr, !.destination = jfk,
                           !.is_round_trip = TRUE, !.return_date = 2,
                           !.passenger_child_count = 1,
                           !.passenger_child_ages = <<"5">>,
                           !.cabin_class = "Business",
                           !.order_currency = "EUR"],
     [DefaultWizard EXCEPT !.origin = <<"L", "H">>],
     [DefaultWizard EXCEPT !.destination = <<>>]}

Init ==
    /\ wizard \in Wizards
    /\ flight_offers = <<>>
    /\ order_lines = <<>>
    /\ calls = <<>>
    /\ clock = 0
    /\ last_done = 0
    /\ document = <<>>
    /\ request = <<>>
    /\ pc = "open"
    /\ out = <<>>

\* the UserError of lines 246-250, "" when origin and destination pass
CodesError(w) ==
    IF w.origin = <<>> \/ w.destination = <<>>
    THEN "Please provide origin and destination airport codes."
    ELSE IF Len(w.origin) # 3 \/ Len(w.destination) # 3
         THEN "Airport codes must be 3 characters (IATA format)."
         ELSE ""

\* action_search_flights up to requests.post (lines 241-266)
StartSearch ==
    /\ clock < MaxCalls
    /\ clock' = clock + 1
    /\ LET error == CodesError(wizard)
           waiting == [i \in 1..Len(calls) |->
                          IF calls[i].pc = "waiting"
                          THEN [calls[i] EXCEPT !.superseded = TRUE]
                          ELSE calls[i]]
       IN  IF error # ""
           THEN /\ calls' = Append(calls, [pc |-> "failed", posts |-> 0,
                                           superseded |-> FALSE, kind |-> "none",
                                           document |-> EmptyDict, error |-> error])
                /\ last_done' = clock + 1
                /\ request' = request
           ELSE /\ calls' = Append(waiting, [pc |-> "waiting", posts |-> 1,
                                             superseded |-> FALSE, kind |-> "none",
                                             document |-> EmptyDict, error |-> ""])
                /\ last_done' = last_done
                /\ request' = prepare_api_payload(wizard)
    /\ UNCHANGED <<wizard, flight_offers, order_lines, document, pc, out>>

\* the UserError an answer ends in (lines 268-309), "" when the offers were
\* stored; a body that is not JSON raises a JSONDecodeError that, depending
\* on the requests library, is or is not a RequestException
AnswerErrors(w, answer) ==
    CASE answer.kind = "request_exception" ->
            {"Error connecting to Travelport API"}
      [] answer.kind = "http_error" ->
            {"Unexpected error: Travelport API Error (HTTP)"}
      [] answer.kind = "bad_json" ->
            {"Error connecting to Travelport API",
             "Invalid JSON response from Travelport API"}
      [] answer.kind = "ok" ->
            LET r == process_flight_results(w, answer.document)
            IN  IF "error" \in DOMAIN r
                THEN {"Unexpected error: " \o r.error}
                ELSE {""}

\* the records _process_flight_results creates in invocation c
Created(w, doc, c) ==
    LET r == process_flight_results(w, doc)
    IN  [i \in 1..Len(r.offers) |->
            [k \in DOMAIN r.offers[i] \cup {"call"} |->
                IF k = "call" THEN c ELSE r.offers[i][k]]]

\* FinishSearch posting the request once more after a first connection
\* failure instead of raising
FinishSearch_retrying(c) ==
    /\ calls[c].pc = "waiting"
    /\ \E answer \in ApiAnswers(wizard) :
          \E error \in AnswerErrors(wizard, answer) :
             IF answer.kind = "request_exception" /\ calls[c].posts = 1
             THEN /\ calls' = [calls EXCEPT ![c].posts = @ + 1]
                  /\ UNCHANGED <<document, flight_offers, last_done>>
             ELSE /\ calls' = [calls EXCEPT
                                  ![c].pc = IF error = "" THEN "done" ELSE "failed",
                                  ![c].kind = answer.kind,
                                  ![c].document = answer.document,
                                  ![c].error = error]
                  /\ document' = answer.document
                  /\ flight_offers' = IF error = ""
                                      THEN Created(wizard, answer.document, c)
                                      ELSE flight_offers
                  /\ last_done' = c
    /\ UNCHANGED <<wizard, order_lines, clock, request, pc, out>>

\* action_search_flights from the answer of requests.post to its return
\* (lines 268-309): only when nothing was raised are the old offers unlinked
\* and the new ones created
FinishSearch(c) ==
    /\ calls[c].pc = "waiting"
    /\ \E answer \in ApiAnswers(wizard) :
          \E error \in AnswerErrors(wizard, answer) :
             /\ calls' = [calls EXCEPT ![c].pc = IF error = "" THEN "done" ELSE "failed",
                                       ![c].kind = answer.kind,
                                       ![c].document = answer.document,
                                       ![c].error = error]
             /\ document' = answer.document
             /\ flight_offers' = IF error = ""
                                 THEN Created(wizard, answer.document, c)
                                 ELSE flight_offers
    /\ last_done' = c
    /\ UNCHANGED <<wizard, order_lines, clock, request, pc, out>>

\* the user ticks or unticks the Select box of a stored offer (the field
\* selected of FlightOffer)
SelectOffer(i) ==
    /\ flight_offers' = [flight_offers EXCEPT ![i].selected = ~@]
    /\ UNCHANGED <<wizard, order_lines, calls, clock, last_done, document,
                   request, pc, out>>

\* AddSelectedOffers taking the first offer whose Select box is ticked, the
\* first offer when none is
AddSelectedOffers_ticked ==
    /\ Len(order_lines) < MaxLines
    /\ IF flight_offers = <<>>
       THEN /\ out' = [error |-> "No flight offers available to add."]
            /\ UNCHANGED order_lines
       ELSE LET ticked == SelectSeq(flight_offers, LAMBDA o : o.selected)
                first_offer == IF ticked = <<>> THEN flight_offers[1] ELSE ticked[1]
            IN  /\ order_lines' = Append(order_lines,
                       [name |-> first_offer.flight_details,
                        product_uom_qty |-> 1,
                        price_unit |-> first_offer.price,
                        product_id |-> FALSE,
                        currency_warning |->
                            (first_offer.currency # wizard.order_currency),
                        call |-> first_offer.call,
                        after |-> last_done])
                /\ out' = [res_model |-> "sale.order"]
    /\ UNCHANGED <<wizard, flight_offers, calls, clock, last_done, document,
                   request, pc>>

\* action_add_selected_offers: a UserError when there is no offer, else one
\* order line from the first offer; nothing is written on the wizard, which
\* can be searched and added from again
AddSelectedOffers ==
    /\ Len(order_lines) < MaxLines
    /\ IF flight_offers = <<>>
       THEN /\ out' = [error |-> "No flight offers available to add."]
            /\ UNCHANGED order_lines
       ELSE LET first_offer == flight_offers[1]
            IN  /\ order_lines' = Append(order_lines,
                       [name |-> first_offer.flight_details,
                        product_uom_qty |-> 1,
                        price_unit |-> first_offer.price,
                        product_id |-> FALSE,
                        currency_warning |->
                            (first_offer.currency # wizard.order_currency),
                        call |-> first_offer.call,
                        after |-> last_done])
                /\ out' = [res_model |-> "sale.order"]
    /\ UNCHANGED <<wizard, flight_offers, calls, clock, last_done, document,
                   request, pc>>

Next ==
    \/ StartSearch
    \/ \E c \in 1..Len(calls) : FinishSearch(c)
    \/ \E i \in 1..Len(flight_offers) : SelectOffer(i)
    \/ AddSelectedOffers

Spec == Init /\ [][Next]_vars

(***************************************************************************)
(* Claims about the request builder.                                       *)
(***************************************************************************)
PayloadRequest ==
    out.payload.CatalogProductOfferingsQueryRequest.CatalogProductOfferingsRequest
Legs == PayloadRequest.SearchCriteriaFlight

\* C3: for every wizard that passed its constraints, SearchCriteriaFlight has
\* one leg when the search is one-way and two when it is a round trip; in a
\* round trip leg 2's From is leg 1's To, leg 2's To is leg 1's From, leg 1
\* carries the departure date and leg 2 the return date.
C3_LegsOfSearch ==
    pc = "built" =>
        /\ Legs[1].departureDate = Strftime(wizard.departure_date)
        /\ ~wizard.is_round_trip => Len(Legs) = 1
        /\ wizard.is_round_trip =>
              /\ Len(Legs) = 2
              /\ Legs[2].From.value = Legs[1].To.value
              /\ Legs[2].To.value = Legs[1].From.value
              /\ Legs[2].departureDate = Strftime(wizard.return_date)

\* a round trip typed in lower case has been built into two legs
C3_Witness ==
    /\ pc = "built"
    /\ wizard.is_round_trip
    /\ wizard.origin = lhr
    /\ Len(Legs) = 2
    /\ Legs[2].To.value = LHR

\* C4: no round-trip wizard is accepted by validation with its return date
\* missing, earlier than the departure date or equal to it: every saved
\* round-trip wizard has a return date strictly after its departure date.
C4_AsStated ==
    (pc \in {"valid", "built"} /\ wizard.is_round_trip) =>
        /\ wizard.return_date # NoDate
        /\ wizard.return_date > wizard.departure_date

\* the age entries of the string that are not blank, and the CNN entries built
AgeEntries == StrippedAges(wizard.passenger_child_ages)
CnnEntries == SelectSeq(PayloadRequest.PassengerCriteria, LAMBDA e : e.value = "CNN")
IntegerAges == SelectSeq(AgeEntries, IntParses)

\* C5 as stated: with n > 0 children, validation fails whenever the number of
\* non-empty age entries differs from n, and whenever it passes the
\* PassengerCriteria holds exactly n CNN entries, one per age, in order.
C5_AsStated ==
    wizard.passenger_child_count > 0 =>
        /\ Len(AgeEntries) # wizard.passenger_child_count
               => pc \notin {"valid", "built"}
        /\ pc = "built" =>
              /\ Len(CnnEntries) = wizard.passenger_child_count
              /\ \A i \in 1..Len(CnnEntries) :
                    /\ IntParses(AgeEntries[i])
                    /\ CnnEntries[i].age = IntOf(AgeEntries[i])

\* C5 amended: validation fails whenever the number of non-blank age entries
\* differs from n; when it passes there is one CNN entry, of number 1, for
\* each age entry that is an integer, in the order given, and none for an
\* entry that is not: exactly n entries only when every entry is an integer.
C5_ChildEntries ==
    wizard.passenger_child_count > 0 =>
        /\ Len(AgeEntries) # wizard.passenger_child_count
               => pc \notin {"valid", "built"}
        /\ pc = "built" =>
              /\ Len(CnnEntries) = Len(IntegerAges)
              /\ \A i \in 1..Len(CnnEntries) :
                    /\ CnnEntries[i].age = IntOf(IntegerAges[i])
                    /\ CnnEntries[i].number = 1
              /\ (\A i \in 1..Len(AgeEntries) : IntParses(AgeEntries[i]))
                    => Len(CnnEntries) = wizard.passenger_child_count

\* two children aged "5,9" have been built into two CNN entries, 5 then 9
C5_Witness ==
    /\ pc = "built"
    /\ wizard.passenger_child_count = 2
    /\ wizard.passenger_child_ages = <<"5", ",", "9">>
    /\ Len(CnnEntries) = 2
    /\ CnnEntries[1].age = 5
    /\ CnnEntries[2].age = 9

(***************************************************************************)
(* Claims about the response interpreter.                                  *)
(***************************************************************************)
DocResponse  == Get(document, "CatalogProductOfferingsResponse", EmptyDict)
DocOfferings == Get(Get(DocResponse, "CatalogProductOfferings", EmptyDict),
                    "CatalogProductOffering", <<>>)
DocFlights   == flight_map(Get(DocResponse, "ReferenceList", <<>>))
DocProducts  == product_map(Get(DocResponse, "ReferenceList", <<>>))

FlightLines(offer) == SelectSeq(offer.flight_details, LAMBDA l : l.kind = "flight")

\* C6: a response with n > 0 offerings leaves exactly min(n, 50) offers, the
\* i-th taken from the i-th offering of the response (its id, price and
\* currency, '' / 0 / USD where the offering has none).
C6_OffersInOrder ==
    (pc # "new" /\ DocOfferings # <<>>) =>
        /\ "offers" \in DOMAIN out
        /\ Len(flight_offers) = Min(Len(DocOfferings), 50)
        /\ \A i \in 1..Len(flight_offers) :
              LET price == Get(DocOfferings[i], "TotalPrice", EmptyDict)
              IN  /\ flight_offers[i].raw_data = DocOfferings[i]
                  /\ flight_offers[i].offer_id = Get(DocOfferings[i], "id", "")
                  /\ flight_offers[i].price = Get(price, "value", 0)
                  /\ flight_offers[i].currency = Get(price, "code", "USD")

\* a response of 51 offerings has been cut to its first 50
C6_Witness ==
    /\ pc = "once"
    /\ Len(DocOfferings) = 51
    /\ Len(flight_offers) = 50
    /\ flight_offers[50].offer_id = "Offer_50"
    /\ flight_offers[1].offer_id = "Offer_1"

\* the response holds one offering, whose only option is a ProductRef naming
\* a ProductAir of two segments, both naming flights of the flight map
OneOfferingTwoSegments ==
    /\ Len(DocOfferings) = 1
    /\ LET options == Get(DocOfferings[1], "ProductOptions", <<>>)
       IN  /\ Len(options) = 1
           /\ "ProductRef" \in DOMAIN options[1]
           /\ options[1].ProductRef \in DOMAIN DocProducts
           /\ LET product == DocProducts[options[1].ProductRef]
                  segments == Get(product, "FlightSegment", <<>>)
              IN  /\ Get(product, "type", "") = "ProductAir"
                  /\ Len(segments) = 2
                  /\ \A j \in 1..2 : SegmentFlightId(segments[j]) \in DOMAIN DocFlights

\* the flight record segment j of that product names
SegmentFlight(j) ==
    LET product == DocProducts[Get(DocOfferings[1], "ProductOptions", <<>>)[1].ProductRef]
    IN  DocFlights[SegmentFlightId(product.FlightSegment[j])]

\* the itinerary is the offer line, one line for each of the two flights in
\* segment order, and the price line last
TwoFlightLinesAndPrice ==
    LET lines == flight_offers[1].flight_details
        flights == FlightLines(flight_offers[1])
    IN  /\ Len(flight_offers) = 1
        /\ Len(lines) = 4
        /\ Len(flights) = 2
        /\ lines[2] = flights[1] /\ lines[3] = flights[2]
        /\ \A j \in 1..2 :
              /\ flights[j].carrier = Get(SegmentFlight(j), "carrier", "")
              /\ flights[j].number = Get(SegmentFlight(j), "number", "")
        /\ lines[4].kind = "price"

\* C7 as stated: one offering whose ProductRef names a ProductAir of two
\* segments, both flights present in the flight list, yields exactly two
\* flight lines in segment order plus one trailing price line.
C7_AsStated ==
    (pc # "new" /\ OneOfferingTwoSegments) => TwoFlightLinesAndPrice

\* C7 amended: the same, provided both flight records carry a non-empty
\* carrier and number (a flight record lacking either yields no line).
C7_TwoFlightLines ==
    (/\ pc # "new"
     /\ OneOfferingTwoSegments
     /\ \A j \in 1..2 : /\ Get(SegmentFlight(j), "carrier", "") # ""
                        /\ Get(SegmentFlight(j), "number", "") # "")
        => TwoFlightLinesAndPrice

\* the offering of product P1 (flights F1 and F2) has been flattened
C7_Witness ==
    /\ pc = "once"
    /\ OneOfferingTwoSegments
    /\ Len(FlightLines(flight_offers[1])) = 2
    /\ FlightLines(flight_offers[1])[1].carrier = "BA"
    /\ FlightLines(flight_offers[1])[2].carrier = "DL"

\* no flight can be resolved for the offering: each of its references is
\* absent from the product map, or names a product that is not a ProductAir,
\* or names one whose segments all name flights absent from the flight map,
\* and none is itself the id of a flight
NoFlightResolvable(offering) ==
    \A r \in Range(ProductRefs(offering)) :
        /\ r \notin DOMAIN DocFlights
        /\ \/ r \notin DOMAIN DocProducts
           \/ Get(DocProducts[r], "type", "") # "ProductAir"
           \/ \A seg \in Range(Get(DocProducts[r], "FlightSegment", <<>>)) :
                 SegmentFlightId(seg) \notin DOMAIN DocFlights

\* the response reduced to its i-th offering
OnlyOffering(i) ==
    [CatalogProductOfferingsResponse |->
        [CatalogProductOfferings |-> [CatalogProductOffering |-> <<DocOfferings[i]>>],
         ReferenceList |-> Get(DocResponse, "ReferenceList", <<>>)]]

Unselected(offer) == [offer EXCEPT !.selected = FALSE]

\* C8: a response with offerings never fails on an offering without a
\* resolvable flight: among the offerings visited (the first 50) such an
\* offering is stored, its itinerary being the offer line, the route line of
\* the wizard's own origin and destination, the return line when the wizard
\* is a round trip, and the price line; and every offer is what its offering
\* alone would have produced, whatever the other offerings are.
C8_FallbackRoute ==
    (pc # "new" /\ DocOfferings # <<>>) =>
        /\ "offers" \in DOMAIN out
        /\ Len(flight_offers) = Min(Len(DocOfferings), 50)
        /\ \A i \in 1..Len(flight_offers) :
              /\ NoFlightResolvable(DocOfferings[i]) =>
                    LET lines == flight_offers[i].flight_details
                    IN  /\ FlightLines(flight_offers[i]) = <<>>
                        /\ Len(lines) = IF wizard.is_round_trip THEN 4 ELSE 3
                        /\ lines[2] = [kind |-> "route", origin |-> wizard.origin,
                                       destination |-> wizard.destination]
                        /\ wizard.is_round_trip =>
                              lines[3] = [kind |-> "return",
                                          origin |-> wizard.destination,
                                          destination |-> wizard.origin]
                        /\ lines[Len(lines)].kind = "price"
              /\ Unselected(flight_offers[i]) =
                    Unselected(process_flight_results(wizard, OnlyOffering(i)).offers[1])

\* a round trip got an unresolvable offering, stored with route and return
\* lines, next to an offering whose flights were resolved
C8_Witness ==
    /\ pc = "once"
    /\ wizard.is_round_trip
    /\ wizard.origin = lhr
    /\ Len(flight_offers) = 2
    /\ NoFlightResolvable(DocOfferings[1])
    /\ ProductRefs(DocOfferings[1]) # <<>>
    /\ flight_offers[1].flight_details[2].kind = "route"
    /\ flight_offers[1].flight_details[3].kind = "return"
    /\ Len(FlightLines(flight_offers[2])) = 2

(***************************************************************************)
(* Claims about the mock server.                                           *)
(***************************************************************************)
ReqLegs ==
    Get(Get(Get(request, "CatalogProductOfferingsQueryRequest", EmptyDict),
            "CatalogProductOfferingsRequest", EmptyDict),
        "SearchCriteriaFlight", <<>>)
ReqOrigin      == Get(Get(ReqLegs[1], "From", EmptyDict), "value", <<>>)
ReqDestination == Get(Get(ReqLegs[1], "To", EmptyDict), "value", <<>>)
ReqDeparture   == Get(ReqLegs[1], "departureDate", "")
ReqReturn      == Get(ReqLegs[2], "departureDate", "")

\* the route is one of the static table, the codes compared as the mock
\* compares them, without regard to case
RouteInTable ==
    \E f \in Range(MOCK_FLIGHTS) :
        f.origin = Upper(ReqOrigin) /\ f.destination = Upper(ReqDestination)

ReqCatalog ==
    Get(Get(request, "CatalogProductOfferingsQueryRequest", EmptyDict),
        "CatalogProductOfferingsRequest", EmptyDict)
ReqPassengers == Get(ReqCatalog, "PassengerCriteria", <<>>)

\* the answers the state stands for lie between these two (see Answered)
Answers == {out.least, out.most}

AnswerOfferings(answer) ==
    answer.body.CatalogProductOfferingsResponse.CatalogProductOfferings.CatalogProductOffering
AnswerReferences(answer) == answer.body.CatalogProductOfferingsResponse.ReferenceList

\* the values the search reads have the JSON types it reads them as: the
\* body and its two wrappers are objects; the first leg is an object whose
\* From and To are objects with string values; a second leg is an object;
\* every PassengerCriteria entry is an object whose number is a number;
\* Cabin is a list
TypesAsRead ==
    /\ IsDict(request)
    /\ IsDict(Get(request, "CatalogProductOfferingsQueryRequest", EmptyDict))
    /\ IsDict(ReqCatalog)
    /\ ReqLegs # <<>> =>
          /\ IsDict(ReqLegs[1])
          /\ IsDict(Get(ReqLegs[1], "From", EmptyDict))
          /\ "value_number" \notin DOMAIN Get(ReqLegs[1], "From", EmptyDict)
          /\ IsDict(Get(ReqLegs[1], "To", EmptyDict))
          /\ "value_number" \notin DOMAIN Get(ReqLegs[1], "To", EmptyDict)
    /\ Len(ReqLegs) > 1 => IsDict(ReqLegs[2])
    /\ \A i \in 1..Len(ReqPassengers) :
          /\ IsDict(ReqPassengers[i])
          /\ "number_str" \notin DOMAIN ReqPassengers[i]
    /\ "Cabin_object" \notin DOMAIN ReqCatalog
    /\ "Cabin_number" \notin DOMAIN ReqCatalog

\* the first entry of Cabin is a string or a number, no list
CabinHashable == "Cabin_nested" \notin DOMAIN ReqCatalog

\* C9 as stated: a request with a first leg whose origin/destination pair
\* matches no entry of the static flight table is answered with a success
\* status, an empty CatalogProductOffering list and an empty ReferenceList,
\* never with an error status.
C9_AsStated ==
    (pc = "answered" /\ ReqLegs # <<>> /\ ~RouteInTable) =>
        \A answer \in Answers :
            /\ answer.status = 200
            /\ "error" \notin DOMAIN answer.body
            /\ AnswerOfferings(answer) = <<>>
            /\ AnswerReferences(answer) = <<>>

\* C9 amended: a request whose values have the JSON types the search reads
\* them as, with a first leg whose origin/destination pair, upper-cased,
\* matches no entry of the static flight table, is answered with a success
\* status, an empty CatalogProductOffering list and an empty ReferenceList,
\* never with an error status.
C9_UnknownRouteIsEmpty ==
    (pc = "answered" /\ TypesAsRead /\ ReqLegs # <<>> /\ ~RouteInTable) =>
        \A answer \in Answers :
            /\ answer.status = 200
            /\ "error" \notin DOMAIN answer.body
            /\ AnswerOfferings(answer) = <<>>
            /\ AnswerReferences(answer) = <<>>

\* a round trip from CDG, with a second leg whose From is an array, has been
\* answered with empty lists
C9_Witness ==
    /\ pc = "answered"
    /\ TypesAsRead
    /\ Len(ReqLegs) = 2
    /\ ReqOrigin = CDG
    /\ ReqReturn # ""
    /\ ~IsDict(Get(ReqLegs[2], "From", EmptyDict))
    /\ out.least = NoFlightsResponse
    /\ out.most = NoFlightsResponse

\* the flight records an offering of the answer resolves to: through its one
\* ProductRef, the product map pm and that product's segments, in the flight
\* map fm
ResolvedFlights(offering, fm, pm) ==
    LET product == pm[ProductRefs(offering)[1]]
    IN  [j \in 1..Len(product.FlightSegment) |->
            fm[SegmentFlightId(product.FlightSegment[j])]]

Resolves(offering, fm, pm) ==
    /\ Len(ProductRefs(offering)) = 1
    /\ ProductRefs(offering)[1] \in DOMAIN pm
    /\ LET product == pm[ProductRefs(offering)[1]]
       IN  /\ product.type = "ProductAir"
           /\ \A j \in 1..Len(product.FlightSegment) :
                 SegmentFlightId(product.FlightSegment[j]) \in DOMAIN fm

AnswerFlights(answer)  == flight_map(AnswerReferences(answer))
AnswerProducts(answer) == product_map(AnswerReferences(answer))

\* the time is a departure time of the table on the given date
CarriesDate(time, date) ==
    \E f \in Range(MOCK_FLIGHTS) : time = date \o "T" \o f.departure_time

IsFlight(flight, origin, destination, date) ==
    /\ PlaceCode(flight.Origin) = origin
    /\ PlaceCode(flight.Destination) = destination
    /\ CarriesDate(flight.departureTime, date)

\* the answer with every TotalPrice.value left out
Unpriced(answer) ==
    IF answer.status # 200 THEN answer
    ELSE [answer EXCEPT
            !.body.CatalogProductOfferingsResponse.CatalogProductOfferings
             .CatalogProductOffering =
                [i \in DOMAIN @ |-> [@[i] EXCEPT !.TotalPrice.value = 0]]]

\* the two answers are one but for the prices, and no price of least is
\* above its price in most
PricesApart ==
    /\ Unpriced(out.least) = Unpriced(out.most)
    /\ out.least.status = 200 =>
          \A i \in DOMAIN AnswerOfferings(out.least) :
              AnswerOfferings(out.least)[i].TotalPrice.value
                 <= AnswerOfferings(out.most)[i].TotalPrice.value

\* C10 as stated: for a route of the table the mock returns 3 to 5 offerings,
\* each referencing one product that resolves to an outbound flight with the
\* requested origin, destination and departure date and, when a return leg
\* is present, to a second flight, reversed, with the return date.
C10_AsStated ==
    (pc = "answered" /\ ReqLegs # <<>> /\ RouteInTable) =>
        \A answer \in Answers :
            /\ answer.status = 200
            /\ Len(AnswerOfferings(answer)) \in 3..5
            /\ LET fm == AnswerFlights(answer)
                   pm == AnswerProducts(answer)
               IN  \A i \in 1..Len(AnswerOfferings(answer)) :
                  /\ Resolves(AnswerOfferings(answer)[i], fm, pm)
                  /\ LET flights == ResolvedFlights(AnswerOfferings(answer)[i], fm, pm)
                     IN  /\ IsFlight(flights[1], ReqOrigin, ReqDestination, ReqDeparture)
                         /\ IF Len(ReqLegs) > 1
                            THEN /\ Len(flights) = 2
                                 /\ IsFlight(flights[2], ReqDestination, ReqOrigin, ReqReturn)
                            ELSE Len(flights) = 1

\* C10 amended: the values of the request have the JSON types the search
\* reads them as and the first entry of Cabin is no list, the route is looked
\* up and echoed in upper case, and the second flight is there exactly when
\* the return leg has a non-empty departureDate: for such a request on a
\* route whose upper-cased codes are in the table the mock returns 3 to 5
\* offerings, each referencing one product that resolves to an outbound
\* flight with the upper-cased origin and destination and the requested
\* departure date and, when a return leg with a departureDate is present, to
\* a second flight, reversed, with that date; otherwise to the outbound
\* flight alone.  This holds whatever random.uniform returns: the answers
\* differ in their prices only.
C10_EchoesRoute ==
    (/\ pc = "answered"
     /\ TypesAsRead
     /\ CabinHashable
     /\ ReqLegs # <<>>
     /\ RouteInTable) =>
        /\ PricesApart
        /\ \A answer \in Answers :
               /\ answer.status = 200
               /\ Len(AnswerOfferings(answer)) \in 3..5
               /\ LET fm == AnswerFlights(answer)
                      pm == AnswerProducts(answer)
                  IN  \A i \in 1..Len(AnswerOfferings(answer)) :
                     /\ Resolves(AnswerOfferings(answer)[i], fm, pm)
                     /\ LET flights == ResolvedFlights(AnswerOfferings(answer)[i], fm, pm)
                        IN  /\ IsFlight(flights[1], Upper(ReqOrigin), Upper(ReqDestination),
                                        ReqDeparture)
                            /\ IF Len(ReqLegs) > 1 /\ ReqReturn # ""
                               THEN /\ Len(flights) = 2
                                    /\ IsFlight(flights[2], Upper(ReqDestination),
                                                Upper(ReqOrigin), ReqReturn)
                               ELSE Len(flights) = 1

\* a round trip from lhr to jfk has been answered with five offerings of two
\* flights each: the first three on three different outbound flights, the
\* last two on the flight of the first, and two different return flights
C10_Witness ==
    /\ pc = "answered"
    /\ Len(ReqLegs) = 2
    /\ ReqOrigin = lhr
    /\ ReqDestination = jfk
    /\ ReqReturn = "2024-06-02"
    /\ Len(AnswerOfferings(out.most)) = 5
    /\ LET flights == [i \in 1..5 |->
                          ResolvedFlights(AnswerOfferings(out.most)[i],
                                          AnswerFlights(out.most),
                                          AnswerProducts(out.most))]
       IN  /\ Len(flights[1]) = 2
           /\ flights[1][1].carrier = "BA"
           /\ flights[2][1].carrier = "AA"
           /\ flights[3][1].carrier = "VS"
           /\ flights[4][1].carrier = "BA"
           /\ flights[5][1].carrier = "BA"
           /\ flights[1][2].carrier # flights[2][2].carrier
           /\ PlaceCode(flights[2][2].Origin) = JFK
    /\ AnswerOfferings(out.least)[1].TotalPrice.value
          < AnswerOfferings(out.most)[1].TotalPrice.value


(***************************************************************************)
(* Claims about the wizard's searches, checked under Spec.                 *)
(***************************************************************************)
Finished(c) == calls[c].pc \in {"done", "failed"}

\* the offers derived from the response of invocation c: none when the
\* exchange failed or the document held no offering
Derived(c) ==
    IF calls[c].kind = "ok"
       /\ "offers" \in DOMAIN process_flight_results(wizard, calls[c].document)
    THEN Created(wizard, calls[c].document, c)
    ELSE <<>>

NoOverlap == \A c \in 1..Len(calls) : ~calls[c].superseded

\* offers compared without their Select boxes, which the user may change
Unticked(offers) ==
    [i \in 1..Len(offers) |-> [offers[i] EXCEPT !.selected = FALSE]]

\* C1: after every completed search that reached the API, normally or with
\* an error, and with no two searches overlapping, the stored offers are
\* exactly the offers derived from that search's response, and every order
\* line was made from an offer of the search that had completed last.
C1_AsStated ==
    (NoOverlap /\ last_done # 0 /\ calls[last_done].kind # "none")
        => /\ Unticked(flight_offers) = Unticked(Derived(last_done))
           /\ \A i \in 1..Len(order_lines) :
                 order_lines[i].call = order_lines[i].after

\* C2: when a search was started while an earlier one waited for its
\* answer, then once every search has finished no stored offer is one the
\* earlier search created.
C2_AsStated ==
    \A a \in 1..Len(calls) :
        (calls[a].superseded /\ \A c \in 1..Len(calls) : Finished(c))
            => \A i \in 1..Len(flight_offers) : flight_offers[i].call # a


(***************************************************************************)
(* The request builder's payload sent to the mock.                         *)
(***************************************************************************)
\* wizards on a route of the mock's table that pass both constraints: every
\* cabin class; one way with 0..MaxAdults adults and no or one child, round
\* trip with 0..MaxAdults adults
InitQuote ==
    /\ Idle
    /\ pc = "new"
    /\ out = <<>>
    /\ \E c \in CabinClasses, a \in 0..MaxAdults, n \in {0, 1} :
          \E rt \in (IF n = 0 THEN BOOLEAN ELSE {FALSE}) :
             wizard = [DefaultWizard EXCEPT
                          !.cabin_class = c,
                          !.passenger_adult_count = a,
                          !.passenger_child_count = n,
                          !.passenger_child_ages = IF n = 0 THEN <<>> ELSE <<"5">>,
                          !.is_round_trip = rt,
                          !.return_date = IF rt THEN 2 ELSE NoDate]
    /\ check_child_ages(wizard) = "ok"
    /\ check_return_date(wizard) = "ok"

\* action_search_flights up to requests.post: the payload is on its way to
\* the mock (lines 252-266)
Post ==
    /\ pc = "new"
    /\ request' = prepare_api_payload(wizard)
    /\ pc' = "posted"
    /\ UNCHANGED <<wizard, flight_offers, order_lines, calls, clock, last_done,
                   document, out>>

\* the mock's search_flights answers the payload posted: document holds the
\* answers at the least and the greatest draw of random.uniform (see
\* Answered)
Quote ==
    /\ pc = "posted"
    /\ Answered(request, document')
    /\ pc' = "answered"
    /\ UNCHANGED <<wizard, flight_offers, order_lines, calls, clock, last_done,
                   request, out>>

NextQuote == Post \/ Quote

SpecQuote == InitQuote /\ [][NextQuote]_vars

(***************************************************************************)
(* Claims about the prices the mock quotes, checked under SpecQuote.       *)
(***************************************************************************)
QuotedOfferings(answer) ==
    answer.body.CatalogProductOfferingsResponse
       .CatalogProductOfferings.CatalogProductOffering

\* ten times the price the user's choices call for, in cents
TenTimesExpected ==
    BASE_PRICES[wizard.cabin_class]
        * (wizard.passenger_adult_count + wizard.passenger_child_count)
        * (IF wizard.is_round_trip THEN 18 ELSE 10)

\* C11: every offering the mock returns for a payload of the request builder
\* is priced within 10 percent of the base price of the cabin class the user
\* selected, times the passenger count, times 1.8 for a round trip, whatever
\* random.uniform returns: at its least and at its greatest value.
C11_AsStated ==
    pc = "answered" =>
        \A answer \in {document.least, document.most} :
            \A i \in 1..Len(QuotedOfferings(answer)) :
                /\ QuotedOfferings(answer)[i].TotalPrice.value * 100
                      >= TenTimesExpected * 9
                /\ QuotedOfferings(answer)[i].TotalPrice.value * 100
                      <= TenTimesExpected * 11


(***************************************************************************)
(* Claims about repeated interpretation, checked under SpecInterpreter.    *)
(***************************************************************************)
\* C12: the second of two runs of _process_flight_results in a row on the
\* same wizard and the same response document leaves the list of stored
\* offers (ids, prices, currencies, itinerary, order, selected flags) and the
\* outcome exactly as the first run left them.
C12_SecondRunChangesNothing ==
    [][pc = "once" => (flight_offers' = flight_offers /\ out' = out)]_vars

C12_Witness ==
    /\ pc = "twice"
    /\ "offers" \in DOMAIN out
    /\ Len(flight_offers) >= 2
    /\ flight_offers = out.offers
    /\ flight_offers[1].selected /\ ~flight_offers[2].selected


(***************************************************************************)
(* Claims about the payload's cabin filter, checked under SpecFlights.     *)
(***************************************************************************)
\* C13: the Cabin key is absent when the cabin class is Economy or unset;
\* for every other cabin class it is a list of exactly one element, the
\* mapped code (Premium Economy gives PremiumEconomy, Business gives
\* Business, First gives First); offersPerPage, sortBy and contentSourceList
\* are the same for every input.
C13_CabinFilter ==
    pc = "built" =>
        /\ wizard.cabin_class \in {"Economy", ""}
              <=> "Cabin" \notin DOMAIN PayloadRequest
        /\ wizard.cabin_class = "Premium Economy"
              => PayloadRequest.Cabin = <<"PremiumEconomy">>
        /\ wizard.cabin_class = "Business" => PayloadRequest.Cabin = <<"Business">>
        /\ wizard.cabin_class = "First" => PayloadRequest.Cabin = <<"First">>
        /\ PayloadRequest.offersPerPage = 50
        /\ PayloadRequest.sortBy = "Price-LowToHigh"
        /\ PayloadRequest.contentSourceList = <<"GDS", "NDC">>

C13_Witness ==
    /\ pc = "built"
    /\ wizard.cabin_class = "Premium Economy"
    /\ wizard.is_round_trip
    /\ PayloadRequest.Cabin = <<"PremiumEconomy">>


(***************************************************************************)
(* Claims about the HTTP exchange of a search, checked under Spec.         *)
(***************************************************************************)
CodesRefused ==
    \/ wizard.origin = <<>> \/ wizard.destination = <<>>
    \/ Len(wizard.origin) # 3 \/ Len(wizard.destination) # 3

FailedExchanges == {"request_exception", "http_error", "bad_json"}

\* C14: every invocation of action_search_flights has issued no POST when
\* origin or destination is missing or not 3 characters long, and then ended
\* with a user-facing error; it has issued exactly one POST otherwise, also
\* after a timeout or connection failure, a non-2xx status or a malformed
\* body, each of which ends the action with a user-facing error.
C14_OnePostAtMost ==
    \A c \in 1..Len(calls) :
        /\ calls[c].posts = IF CodesRefused THEN 0 ELSE 1
        /\ calls[c].posts = 0 => (calls[c].pc = "failed" /\ calls[c].error # "")
        /\ calls[c].kind \in FailedExchanges
              => (calls[c].pc = "failed" /\ calls[c].error # "" /\ calls[c].posts = 1)

C14_Witness ==
    /\ Len(calls) = 2
    /\ calls[1].kind = "request_exception" /\ calls[1].posts = 1
    /\ calls[2].kind = "bad_json" /\ calls[2].pc = "failed"


(***************************************************************************)
(* Claims about responses without offerings, checked under Spec.           *)
(***************************************************************************)
\* the document has no CatalogProductOfferingsResponse container, or its
\* CatalogProductOffering list is missing or empty
WithoutOfferings(doc) ==
    \/ "CatalogProductOfferingsResponse" \notin DOMAIN doc
    \/ LET container == doc.CatalogProductOfferingsResponse
       IN  \/ "CatalogProductOfferings" \notin DOMAIN container
           \/ "CatalogProductOffering" \notin DOMAIN container.CatalogProductOfferings
           \/ container.CatalogProductOfferings.CatalogProductOffering = <<>>

\* C15: a search whose response document has no container or no offering in
\* it ends with a user-facing error, never with a success, and no stored
\* offer was created from that response.
C15_NoOfferingsIsAnError ==
    \A c \in 1..Len(calls) :
        (calls[c].kind = "ok" /\ WithoutOfferings(calls[c].document))
            => /\ calls[c].pc = "failed"
               /\ calls[c].error # ""
               /\ \A i \in 1..Len(flight_offers) : flight_offers[i].call # c

\* the second search found nothing while the first one's offers are stored
C15_Witness ==
    /\ Len(calls) = 2
    /\ calls[2].kind = "ok"
    /\ calls[2].document = NoFlightsResponse.body
    /\ calls[2].error = "Unexpected error: No flight offers found for the selected criteria."
    /\ flight_offers # <<>>


(***************************************************************************)
(* Claims about adding an offer to the order, checked under Spec.          *)
(***************************************************************************)
\* C16: action_add_selected_offers on a wizard with at least one stored offer
\* creates exactly one order line, whose description and unit price are those
\* of the first stored offer, whatever the Select boxes and the currencies;
\* on a wizard with no stored offer it raises a user-facing error and creates
\* no line.
C16_FirstOfferAdded ==
    [][(\/ order_lines' # order_lines
        \/ ("error" \in DOMAIN out' /\ "error" \notin DOMAIN out))
       => IF flight_offers = <<>>
          THEN order_lines' = order_lines /\ "error" \in DOMAIN out'
          ELSE /\ Len(order_lines') = Len(order_lines) + 1
               /\ SubSeq(order_lines', 1, Len(order_lines)) = order_lines
               /\ order_lines'[Len(order_lines')].name = flight_offers[1].flight_details
               /\ order_lines'[Len(order_lines')].price_unit = flight_offers[1].price
               /\ order_lines'[Len(order_lines')].product_uom_qty = 1
               /\ "error" \notin DOMAIN out']_vars

\* the line was made from the first offer, in another currency than the
\* order's, while only the second offer's Select box was ticked
C16_Witness ==
    /\ Len(order_lines) = 1
    /\ Len(flight_offers) >= 2
    /\ ~flight_offers[1].selected /\ flight_offers[2].selected
    /\ order_lines[1].name = flight_offers[1].flight_details
    /\ order_lines[1].name # flight_offers[2].flight_details
    /\ order_lines[1].price_unit = flight_offers[1].price
    /\ order_lines[1].currency_warning


(***************************************************************************)
(* Claims about the flights of an itinerary, checked under SpecInterpreter.*)
(***************************************************************************)
\* the flight records the flight map holds for the ids, in the ids' order
FlightsOf(ids, fm) ==
    Concat([j \in 1..Len(ids) |->
               IF ids[j] \in DOMAIN fm THEN <<fm[ids[j]]>> ELSE <<>>])

\* the flights reachable from one ProductOptions entry: through the segments
\* of the air product its ProductRef names, or directly from its FlightRefs
OptionFlights(option, fm, pm) ==
    IF "ProductRef" \in DOMAIN option
    THEN IF /\ option.ProductRef \in DOMAIN pm
            /\ Get(pm[option.ProductRef], "type", "") = "ProductAir"
         THEN LET segments == Get(pm[option.ProductRef], "FlightSegment", <<>>)
              IN  FlightsOf([j \in 1..Len(segments) |-> SegmentFlightId(segments[j])], fm)
         ELSE <<>>
    ELSE IF "FlightRefs" \in DOMAIN option
         THEN FlightsOf(option.FlightRefs, fm)
         ELSE <<>>

\* one line for every reachable flight that has a carrier and a number
ReachableLines(offering, fm, pm) ==
    LET options == Get(offering, "ProductOptions", <<>>)
        flights == Concat([j \in 1..Len(options) |-> OptionFlights(options[j], fm, pm)])
    IN  Concat([j \in 1..Len(flights) |-> FlightInfo(flights[j])])

\* C17: the flight lines of every offer are, in the order of its offering's
\* ProductOptions entries, the lines of all the flights reachable from those
\* entries (the segments of a ProductRef's product, the ids of a FlightRefs
\* list); none is dropped, also when the entries mix both kinds or name more
\* than five products.
C17_AsStated ==
    (pc # "new" /\ "offers" \in DOMAIN out) =>
        LET fm == DocFlights
            pm == DocProducts
        IN  \A i \in 1..Len(flight_offers) :
                FlightLines(flight_offers[i]) = ReachableLines(DocOfferings[i], fm, pm)

====
